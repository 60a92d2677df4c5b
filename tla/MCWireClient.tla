---------------------------- MODULE MCWireClient ----------------------------
(* Instances of WireClient for TLC. *)
EXTENDS WireClient

\* One frame of every kind the dispatcher tells apart, two correlation ids.  A
\* request whose handler panics is left to the Python client.
SomeFrames ==
  {[cid |-> 1, kind |-> k] :
     k \in {"connect", "badversion", "request", "error", "garbage", "overlong"}}
    \cup {[cid |-> 2, kind |-> k] : k \in {"request", "nobody", "bulky", "response"}}
=============================================================================
