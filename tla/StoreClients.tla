---------------------------- MODULE StoreClients ----------------------------
(***************************************************************************)
(* Any processes calling write_json and read_json of one MetadataStore, in *)
(* any order, any of them killed at any step.  Writer[x] are the processes *)
(* that write the path x: with at most one for each path the store         *)
(* implements AtomicStore.                                                 *)
(***************************************************************************)
EXTENDS MetadataStore

CONSTANTS
  Writer,          \* Writer[x]: the processes that may write the path x
  Docs,            \* the documents they write
  MaxClientCalls,  \* bound: calls made by all the processes together
  MaxClientKills   \* bound: processes killed in the middle of a call

ASSUME ClientAssumption ==
  /\ Writer \in [Path -> SUBSET Proc]
  /\ Docs \subseteq SUBSET Entry
  /\ MaxClientCalls \in Nat /\ MaxClientKills \in Nat

VARIABLES clientCalls, clientKills

clientVars == <<file, tmp, content, call, overlapped, clientCalls, clientKills>>

ClientInit ==
  /\ StoreInit
  /\ clientCalls = 0
  /\ clientKills = 0

ClientWrite(p) ==
  /\ clientCalls < MaxClientCalls
  /\ \E x \in Path, d \in Docs : p \in Writer[x] /\ OpenTmp(p, x, d)
  /\ clientCalls' = clientCalls + 1
  /\ UNCHANGED clientKills

ClientRead(p) ==
  /\ clientCalls < MaxClientCalls
  /\ \E x \in Path : CheckExists(p, x)
  /\ clientCalls' = clientCalls + 1
  /\ UNCHANGED clientKills

ClientStep(p) == CallStep(p) /\ UNCHANGED <<clientCalls, clientKills>>

ClientKilled(p) ==
  /\ clientKills < MaxClientKills
  /\ ~Ready(p)
  /\ KillCall(p)
  /\ clientKills' = clientKills + 1
  /\ UNCHANGED clientCalls

ClientNext == \E p \in Proc : ClientWrite(p) \/ ClientRead(p) \/ ClientStep(p) \/ ClientKilled(p)

ClientSpec == ClientInit /\ [][ClientNext]_clientVars

-----------------------------------------------------------------------------
ClientTypeOK ==
  /\ StoreTypeOK
  /\ clientCalls \in 0..MaxClientCalls
  /\ clientKills \in 0..MaxClientKills

-----------------------------------------------------------------------------
(* The calls as AtomicStore sees them: a write is installed by the replace,*)
(* a read takes its snapshot when it opens the file.                       *)
AbsStage(s) ==
  CASE s \in WriteStage -> "write"
    [] s = "found"      -> "read"
    [] s = "reading"    -> "snapped"
    [] s = "error"      -> "failed"
    [] OTHER            -> s

AbsReq == [p \in Proc |->
  LET c == call[p]
  IN  [stage |-> AbsStage(c.stage), path |-> c.path,
       doc   |-> IF c.stage = "reading" THEN content[c.fd].doc ELSE c.doc]]

Abs == INSTANCE AtomicStore WITH doc <- [x \in Path |-> Current(x)], req <- AbsReq

(* With one writer for each path, the store is an AtomicStore.             *)
ImplementsAtomicStore == Abs!Spec
=============================================================================
