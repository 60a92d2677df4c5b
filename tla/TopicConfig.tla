----------------------------- MODULE TopicConfig -----------------------------
(***************************************************************************)
(* A topic's configuration: the overrides a client sets, the patch that    *)
(* AlterTopicConfig merges, the check both pass, and the resolution over   *)
(* the broker's defaults and the profile of its disk.                      *)
(***************************************************************************)
EXTENDS Integers

CONSTANTS Unset,            \* an override that is None
          DefaultMaxKey,    \* 1 KiB
          DefaultMaxValue   \* 1 MiB

Field == {"segment_size_bytes", "segment_seal_time_ms", "max_key_size_bytes",
          "max_value_size_bytes", "group_commit_time_ms", "group_commit_size_bytes",
          "group_commit_record_count", "max_fetch_wait_ms", "retention_ms",
          "retention_bytes"}

Disk == {"nvme", "ssd", "rotational"}

Settings == [Field -> Int \cup {Unset}]

ASSUME UnsetAssumption == Unset \notin Int \cup Settings

NoOverrides == [f \in Field |-> Unset]

\* What validate asks of a field; the unsigned ones it leaves alone.
LowerBound(f) ==
  CASE f \in {"segment_size_bytes", "segment_seal_time_ms"} -> 1
    [] f \in {"retention_ms", "retention_bytes"} -> -1
    [] OTHER -> 0

Valid(o) == \A f \in Field : o[f] # Unset => o[f] >= LowerBound(f)

Merge(o, patch) == [f \in Field |-> IF patch[f] = Unset THEN o[f] ELSE patch[f]]

GroupCommitProfile(disk) ==
  CASE disk = "nvme"       -> [time_ms |-> 5, size_bytes |-> 65536, record_count |-> 256]
    [] disk = "ssd"        -> [time_ms |-> 15, size_bytes |-> 262144, record_count |-> 1024]
    [] disk = "rotational" -> [time_ms |-> 50, size_bytes |-> 1048576, record_count |-> 4096]

Default(f, disk) ==
  CASE f = "segment_size_bytes"        -> 134217728
    [] f = "segment_seal_time_ms"      -> 60000
    [] f = "max_key_size_bytes"        -> DefaultMaxKey
    [] f = "max_value_size_bytes"      -> DefaultMaxValue
    [] f = "group_commit_time_ms"      -> GroupCommitProfile(disk).time_ms
    [] f = "group_commit_size_bytes"   -> GroupCommitProfile(disk).size_bytes
    [] f = "group_commit_record_count" -> GroupCommitProfile(disk).record_count
    [] f = "max_fetch_wait_ms"         -> 60000
    [] f = "retention_ms"              -> 604800000
    [] f = "retention_bytes"           -> -1

Resolve(o, disk) == [f \in Field |-> IF o[f] = Unset THEN Default(f, disk) ELSE o[f]]
==============================================================================
