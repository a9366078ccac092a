----------------------------- MODULE AtomicStore -----------------------------
(***************************************************************************)
(* What MetadataStore promises its callers when the writers of a path take *)
(* turns: a write installs its document in one step or, when it fails or   *)
(* its process is killed, not at all; a read returns the document that was *)
(* installed at one moment of the call, and never fails.                   *)
(***************************************************************************)
CONSTANTS Proc, Path, NoPath, Entry

VARIABLES
  doc,  \* doc[x]: the document at the path x, or "missing"
  req   \* req[p]: the call process p is in

vars == <<doc, req>>

Doc        == SUBSET Entry
Absent     == [kind |-> "missing", doc |-> {}]
Present(d) == [kind |-> "doc", doc |-> d]
Ended(stage, d) == [stage |-> stage, path |-> NoPath, doc |-> d]

Init ==
  /\ doc = [x \in Path |-> Absent]
  /\ req = [p \in Proc |-> Ended("idle", {})]

InCall(p) == req[p].stage \in {"write", "read", "snapped"}

StartWrite(p, x, d) ==
  /\ ~InCall(p)
  /\ req' = [req EXCEPT ![p] = [stage |-> "write", path |-> x, doc |-> d]]
  /\ UNCHANGED doc

Install(p) ==
  /\ req[p].stage = "write"
  /\ doc' = [doc EXCEPT ![req[p].path] = Present(req[p].doc)]
  /\ req' = [req EXCEPT ![p] = Ended("ok", {})]

(* A write that raises has installed nothing.                              *)
Fail(p) ==
  /\ req[p].stage = "write"
  /\ req' = [req EXCEPT ![p] = Ended("failed", {})]
  /\ UNCHANGED doc

(* The process is killed: its call is forgotten, nothing is installed.     *)
Die(p) ==
  /\ req' = [req EXCEPT ![p] = Ended("idle", {})]
  /\ UNCHANGED doc

ReadMissing(p, x) ==
  /\ ~InCall(p)
  /\ doc[x] = Absent
  /\ req' = [req EXCEPT ![p] = Ended("ok", {})]
  /\ UNCHANGED doc

StartRead(p, x) ==
  /\ ~InCall(p)
  /\ doc[x] # Absent
  /\ req' = [req EXCEPT ![p] = [stage |-> "read", path |-> x, doc |-> {}]]
  /\ UNCHANGED doc

Snapshot(p) ==
  /\ req[p].stage = "read"
  /\ LET x == req[p].path
     IN  req' = [req EXCEPT ![p] = [stage |-> "snapped", path |-> x, doc |-> doc[x].doc]]
  /\ UNCHANGED doc

(* The document is returned as it was at the snapshot.                     *)
Return(p) ==
  /\ req[p].stage = "snapped"
  /\ req' = [req EXCEPT ![p] = Ended("ok", @.doc)]
  /\ UNCHANGED doc

Next ==
  \E p \in Proc :
    \/ Install(p) \/ Fail(p) \/ Die(p) \/ Snapshot(p) \/ Return(p)
    \/ \E x \in Path : ReadMissing(p, x) \/ StartRead(p, x)
    \/ \E x \in Path, d \in Doc : StartWrite(p, x, d)

Spec == Init /\ [][Next]_vars
=============================================================================
