---------------------------- MODULE MCBrokerFiles ----------------------------
(* BrokerFiles with a key_len that wraps at two bytes, a default limit of one *)
(* byte for keys, and an override that lifts it to three.                    *)
EXTENDS BrokerFiles

Toml(cluster, id, disk) == [cluster |-> cluster, id |-> id, disk |-> disk]

SomeTomls == {Toml(TRUE, Unset, "nvme"), Toml(TRUE, 100, "ssd"), Toml(FALSE, Unset, "nvme")}

With(f, v) == [NoOverrides EXCEPT ![f] = v]

SomeOverrides ==
  {With("max_key_size_bytes", 3), With("segment_size_bytes", 0),
   With("retention_ms", -1), With("retention_ms", -2)}

Rec(k, v) == [key |-> k, value |-> v]

SomeBatches ==
  {<<>>, <<Rec(<<0, 1, 1>>, <<>>)>>,
   <<Rec(<<>>, <<1>>), Rec(<<1>>, <<0>>)>>}
==============================================================================
