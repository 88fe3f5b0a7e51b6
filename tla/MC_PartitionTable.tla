-------------------------- MODULE MC_PartitionTable --------------------------
(* Instances of PartitionTable for TLC: sectors of 2 bytes, a partition start *)
(* of 6 sectors, filesystems aligned to 2 sectors, 2 sectors of GPT entries,  *)
(* and "2 TiB" at 20 sectors.                                                 *)
EXTENDS PartitionTable, TLC

MCSizes == 1..60
MCMagic == ("ntfs" :> 0) @@ ("ext4" :> 1) @@ ("fat32" :> 0) @@ ("btrfs" :> 2)
             @@ ("hfsplus" :> 1)
MCFsChoices == {"none", "zfs"} \cup DOMAIN MCMagic
==============================================================================
