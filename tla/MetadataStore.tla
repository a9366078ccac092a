---------------------------- MODULE MetadataStore ----------------------------
(***************************************************************************)
(* npu_control_plane/metadata.py: the JSON store that every npu-ctrl       *)
(* command reads and writes.  Each command is a process of its own, with   *)
(* no lock, so a call of write_json or read_json is the sequence of its    *)
(* file-system steps and the steps of several processes interleave.        *)
(*                                                                         *)
(* A document is the set of entries of the list it holds.  The file system *)
(* is modelled by inodes because open files outlive renames:               *)
(*   file[x]    the inode at the path x            (NoInode: no such file) *)
(*   tmp[x]     the inode at the path x + ".tmp"   (NoInode: no such file) *)
(*   content[i] what the inode i holds.                                    *)
(* The text of a document reaches its file when the handle is closed.      *)
(* The operators named Bug... are wrong on purpose: each is what a slip in *)
(* the code would turn the definition after it into.                       *)
(***************************************************************************)
EXTENDS Naturals, FiniteSets

CONSTANTS
  Proc,     \* npu-ctrl processes
  Path,     \* the JSON files of the store
  NoPath,   \* the path of a process that is in no call
  Inode,    \* inodes of the file system
  NoInode,  \* no inode
  Entry     \* entries of the documents

ASSUME StoreAssumption == NoPath \notin Path /\ NoInode \notin Inode

VARIABLES
  file, tmp, content,
  call,       \* call[p]: where process p is in write_json or read_json
  overlapped  \* history: paths on which two write_json calls have overlapped

storeVars == <<file, tmp, content, call, overlapped>>

Doc == SUBSET Entry

(* What a file can hold: nothing (just opened for writing), the text of a  *)
(* document, or text that json.load refuses.                               *)
Content == [kind : {"blank", "doc", "torn"}, doc : Doc]
Blank   == [kind |-> "blank", doc |-> {}]
Torn    == [kind |-> "torn",  doc |-> {}]
Text(d) == [kind |-> "doc",   doc |-> d]

(* The stages of a call.  "idle": none made yet, or the process was killed;*)
(* "ok" and "error": the call has returned, or raised.                     *)
ReadStage  == {"found", "reading"}
WriteStage == {"writing", "closed"}
EndStage   == {"idle", "ok", "error"}
Call == [stage : ReadStage \cup WriteStage \cup EndStage,
         path  : Path \cup {NoPath},
         fd    : Inode \cup {NoInode},
         doc   : Doc]

Ended(stage, d) == [stage |-> stage, path |-> NoPath, fd |-> NoInode, doc |-> d]
Idle            == Ended("idle", {})

Ready(p)         == call[p].stage \in EndStage
WritersOf(x)     == {p \in Proc : call[p].stage \in WriteStage /\ call[p].path = x}
InodesInUse      == {file[x] : x \in Path} \cup {tmp[x] : x \in Path}
                      \cup {call[p].fd : p \in Proc}
FreeInodes       == Inode \ InodesInUse

StoreTypeOK ==
  /\ file \in [Path -> Inode \cup {NoInode}]
  /\ tmp \in [Path -> Inode \cup {NoInode}]
  /\ content \in [Inode -> Content]
  /\ call \in [Proc -> Call]
  /\ overlapped \in SUBSET Path

StoreInit ==
  /\ file = [x \in Path |-> NoInode]
  /\ tmp = [x \in Path |-> NoInode]
  /\ content = [i \in Inode |-> Blank]
  /\ call = [p \in Proc |-> Idle]
  /\ overlapped = {}

-----------------------------------------------------------------------------
(* write_json                                                              *)

(* What a file that holds c can hold once the text of d is written over it *)
(* from its first byte: what c has beyond the end of the text of d stays.  *)
(* A document with more entries has a longer text; two documents neither   *)
(* of which includes the other may have texts of any lengths.              *)
Overwrite(c, d) ==
  IF c.kind = "blank" \/ (c.kind = "doc" /\ c.doc \subseteq d)
  THEN {Text(d)}
  ELSE IF c.kind = "doc" /\ d \subseteq c.doc
       THEN {Torn}
       ELSE {Text(d), Torn}

(* What the ".tmp" file holds after open("w"), if it held c.               *)
BugNotTruncated(c) == c
Truncated(c) == Blank

(* open("w") of the ".tmp" file: the file is created, or truncated where a *)
(* crashed, failed or concurrent call has left it.                         *)
OpenTmp(p, x, d) ==
  /\ Ready(p)
  /\ tmp[x] = NoInode => FreeInodes # {}
  /\ LET i == IF tmp[x] = NoInode THEN CHOOSE j \in FreeInodes : TRUE ELSE tmp[x]
     IN  /\ tmp' = [tmp EXCEPT ![x] = i]
         /\ content' = [content EXCEPT ![i] = Truncated(@)]
         /\ call' = [call EXCEPT ![p] =
                       [stage |-> "writing", path |-> x, fd |-> i, doc |-> d]]
  /\ overlapped' = IF WritersOf(x) = {} THEN overlapped ELSE overlapped \cup {x}
  /\ UNCHANGED file

(* json.dump into the handle, and the end of the with block.               *)
CloseTmp(p) ==
  /\ call[p].stage = "writing"
  /\ \E c \in Overwrite(content[call[p].fd], call[p].doc) :
       content' = [content EXCEPT ![call[p].fd] = c]
  /\ call' = [call EXCEPT ![p].stage = "closed"]
  /\ UNCHANGED <<file, tmp, overlapped>>

(* json.dump or the write raises (a value that is not JSON, a full disk):  *)
(* a beginning of the text, possibly empty, may be in the file.            *)
DumpFails(p) ==
  /\ call[p].stage = "writing"
  /\ \E c \in {content[call[p].fd], Torn} :
       content' = [content EXCEPT ![call[p].fd] = c]
  /\ call' = [call EXCEPT ![p] = Ended("error", {})]
  /\ UNCHANGED <<file, tmp, overlapped>>

(* tmp_path.replace(path): whatever the name tmp_path refers to by now     *)
(* becomes path; FileNotFoundError when another call has moved it away.    *)
BugUnlinkFirst(p) ==
  LET x == call[p].path
  IN  /\ call[p].stage = "closed"
      /\ file' = [file EXCEPT ![x] = tmp[x]]
      /\ tmp' = [tmp EXCEPT ![x] = NoInode]
      /\ call' = [call EXCEPT ![p] =
                    Ended(IF tmp[x] = NoInode THEN "error" ELSE "ok", {})]
      /\ UNCHANGED <<content, overlapped>>

BugReplaceBeforeClose(p) ==
  LET x == call[p].path
  IN  /\ call[p].stage = "writing"
      /\ tmp[x] # NoInode
      /\ file' = [file EXCEPT ![x] = tmp[x]]
      /\ tmp' = [tmp EXCEPT ![x] = NoInode]
      /\ call' = [call EXCEPT ![p] = Ended("ok", {})]
      /\ UNCHANGED <<content, overlapped>>

ReplaceFile(p) ==
  LET x == call[p].path
  IN  /\ call[p].stage = "closed"
      /\ IF tmp[x] # NoInode
         THEN /\ file' = [file EXCEPT ![x] = tmp[x]]
              /\ tmp' = [tmp EXCEPT ![x] = NoInode]
              /\ call' = [call EXCEPT ![p] = Ended("ok", {})]
         ELSE /\ call' = [call EXCEPT ![p] = Ended("error", {})]
              /\ UNCHANGED <<file, tmp>>
      /\ UNCHANGED <<content, overlapped>>

-----------------------------------------------------------------------------
(* read_json                                                               *)

(* path.exists(): a missing file reads as the default, the empty document. *)
CheckExists(p, x) ==
  /\ Ready(p)
  /\ call' = [call EXCEPT ![p] =
                IF file[x] = NoInode
                THEN Ended("ok", {})
                ELSE [stage |-> "found", path |-> x, fd |-> NoInode, doc |-> {}]]
  /\ UNCHANGED <<file, tmp, content, overlapped>>

(* path.open("r"): raises when the file is gone since the exists() check.  *)
OpenFile(p) ==
  LET x == call[p].path
  IN  /\ call[p].stage = "found"
      /\ call' = [call EXCEPT ![p] =
                    IF file[x] = NoInode
                    THEN Ended("error", {})
                    ELSE [@ EXCEPT !.stage = "reading", !.fd = file[x]]]
      /\ UNCHANGED <<file, tmp, content, overlapped>>

(* json.load of the open handle: raises unless the text is a document.     *)
LoadFile(p) ==
  LET c == content[call[p].fd]
  IN  /\ call[p].stage = "reading"
      /\ call' = [call EXCEPT ![p] =
                    IF c.kind = "doc" THEN Ended("ok", c.doc) ELSE Ended("error", {})]
      /\ UNCHANGED <<file, tmp, content, overlapped>>

-----------------------------------------------------------------------------
(* A step of whatever call process p is in.                                *)
CallStep(p) ==
  \/ CloseTmp(p) \/ DumpFails(p) \/ ReplaceFile(p)
  \/ OpenFile(p) \/ LoadFile(p)

(* The process is killed: its handles are closed, unwritten text is lost.  *)
KillCall(p) ==
  /\ call' = [call EXCEPT ![p] = Idle]
  /\ UNCHANGED <<file, tmp, content, overlapped>>

-----------------------------------------------------------------------------
(* The document a reader that opens x now gets.                            *)
Missing    == [kind |-> "missing", doc |-> {}]
Current(x) == IF file[x] = NoInode THEN Missing ELSE content[file[x]]

(* While no two writes of a path have overlapped: the file at the path, if *)
(* there is one, and every file that a reader of the path holds open, is a *)
(* whole document, and the temporary file of a write that is about to      *)
(* replace the path holds exactly the document of that write, so that      *)
(* neither json.load nor replace can fail.                                 *)
WholeUnlessOverlapped ==
  \A x \in Path \ overlapped :
    /\ file[x] # NoInode => content[file[x]].kind = "doc"
    /\ \A p \in Proc : call[p].path = x =>
         /\ call[p].stage = "reading" => content[call[p].fd].kind = "doc"
         /\ call[p].stage = "closed" =>
              tmp[x] # NoInode /\ content[tmp[x]] = Text(call[p].doc)

(* Reads and writes are "atomic-ish": whoever writes it and when, a file of*)
(* the store is never a half-written document.                             *)
AlwaysWhole == \A x \in Path : file[x] # NoInode => content[file[x]].kind = "doc"

(* A JSON file of the store, once there, is never missing again: replace   *)
(* swaps one file for another, so exists() cannot be stale at open().      *)
NeverVanishes == [][\A x \in Path : file[x] # NoInode => file'[x] # NoInode]_storeVars
=============================================================================
