----------------------------- MODULE StoreProofs -----------------------------
(***************************************************************************)
(* Why the files of a MetadataStore are whole while no two writes of one   *)
(* path overlap.  StoreInv is inductive for the steps of the store, so it  *)
(* holds of every program whose processes use the store by these steps.    *)
(***************************************************************************)
EXTENDS StoreClients, TLAPS

(* What a call has in each stage.                                          *)
CallShape ==
  \A p \in Proc :
    /\ call[p].stage \in WriteStage \cup {"reading"} =>
         call[p].path \in Path /\ call[p].fd \in Inode
    /\ call[p].stage = "found" => call[p].path \in Path
    /\ call[p].stage \in EndStage => call[p].path = NoPath
    /\ call[p].stage \notin WriteStage \cup {"reading"} => call[p].fd = NoInode

(* The inode i belongs to the path x.                                      *)
Holds(x, i) ==
  \/ file[x] = i \/ tmp[x] = i
  \/ \E p \in Proc : call[p].path = x /\ call[p].fd = i

HeldOnce ==
  \A x, y \in Path, i \in Inode : Holds(x, i) /\ Holds(y, i) => x = y

(* The files of a path on which no writes have overlapped.                 *)
PathInv(x) ==
  /\ \A p, q \in WritersOf(x) : p = q
  /\ \A p \in WritersOf(x) :
       /\ call[p].fd = tmp[x]
       /\ content[tmp[x]] = IF call[p].stage = "closed" THEN Text(call[p].doc) ELSE Blank
  /\ file[x] # NoInode => content[file[x]].kind = "doc" /\ file[x] # tmp[x]
  /\ \A p \in Proc : call[p].path = x /\ call[p].stage = "reading" =>
       content[call[p].fd].kind = "doc" /\ call[p].fd # tmp[x]

StoreInv ==
  /\ StoreTypeOK
  /\ CallShape
  /\ HeldOnce
  /\ \A x \in Path \ overlapped : PathInv(x)

LEMMA StoreInvWhole == StoreInv => WholeUnlessOverlapped
<1> SUFFICES ASSUME StoreInv, NEW x \in Path \ overlapped
             PROVE  /\ file[x] # NoInode => content[file[x]].kind = "doc"
                    /\ \A p \in Proc : call[p].path = x =>
                         /\ call[p].stage = "reading" => content[call[p].fd].kind = "doc"
                         /\ call[p].stage = "closed" =>
                              tmp[x] # NoInode /\ content[tmp[x]] = Text(call[p].doc)
  BY DEF WholeUnlessOverlapped
<1>1. PathInv(x)
  BY DEF StoreInv
<1>2. ASSUME NEW p \in Proc, call[p].path = x, call[p].stage = "closed"
      PROVE  tmp[x] # NoInode /\ content[tmp[x]] = Text(call[p].doc)
  <2>1. p \in WritersOf(x)
    BY <1>2 DEF WritersOf, WriteStage
  <2>2. call[p].fd \in Inode
    BY <1>2 DEF StoreInv, CallShape, WriteStage
  <2> QED  BY <1>1, <1>2, <2>1, <2>2, StoreAssumption DEF PathInv
<1> QED  BY <1>1, <1>2 DEF PathInv

LEMMA StoreInitInv == StoreInit => StoreInv
<1> SUFFICES ASSUME StoreInit PROVE StoreInv
  OBVIOUS
<1> USE StoreAssumption DEF StoreInit, Idle, Ended
<1>1. StoreTypeOK
  BY DEF StoreTypeOK, Content, Blank, Call, EndStage, Doc
<1>2. CallShape
  BY DEF CallShape, WriteStage, EndStage
<1>3. HeldOnce
  BY DEF HeldOnce, Holds
<1>4. \A x \in Path : PathInv(x)
  BY DEF PathInv, WritersOf, WriteStage
<1> QED  BY <1>1, <1>2, <1>3, <1>4 DEF StoreInv

(* A step that leaves the files and the calls of a path as they are.       *)
LEMMA PathFrame ==
  ASSUME NEW x \in Path, CallShape, PathInv(x),
         file'[x] = file[x], tmp'[x] = tmp[x],
         \A q \in Proc : call[q].path = x \/ call'[q].path = x => call'[q] = call[q],
         \A i \in Inode : Holds(x, i) => content'[i] = content[i],
         file[x] \in Inode \cup {NoInode}
  PROVE  PathInv(x)'
<1>1. WritersOf(x)' = WritersOf(x)
  BY DEF WritersOf
<1>2. \A p \in WritersOf(x) : content'[tmp[x]] = content[tmp[x]] /\ call'[p] = call[p]
  <2> SUFFICES ASSUME NEW p \in WritersOf(x)
               PROVE  content'[tmp[x]] = content[tmp[x]] /\ call'[p] = call[p]
    OBVIOUS
  <2>1. p \in Proc /\ call[p].path = x /\ call[p].stage \in WriteStage
    BY DEF WritersOf
  <2>2. call[p].fd \in Inode /\ call[p].fd = tmp[x]
    BY <2>1 DEF CallShape, PathInv
  <2> QED  BY <2>1, <2>2 DEF Holds
<1>3. file[x] # NoInode => content'[file[x]] = content[file[x]]
  BY DEF Holds
<1>4. ASSUME NEW p \in Proc, call'[p].path = x, call'[p].stage = "reading"
      PROVE  content'[call'[p].fd].kind = "doc" /\ call'[p].fd # tmp'[x]
  <2>1. call'[p] = call[p]
    BY <1>4
  <2>2. call[p].fd \in Inode /\ Holds(x, call[p].fd)
    BY <1>4, <2>1 DEF CallShape, Holds
  <2> QED  BY <1>4, <2>1, <2>2 DEF PathInv
<1> QED  BY <1>1, <1>2, <1>3, <1>4 DEF PathInv

-----------------------------------------------------------------------------
(* Steps that change no file and no content: the call of p moves on, and   *)
(* if it is at a path at all, stays at that path with a handle of it.      *)
LEMMA CallOnly ==
  ASSUME NEW p \in Proc, StoreInv, StoreTypeOK', CallShape',
         UNCHANGED <<file, tmp, content, overlapped>>,
         \A q \in Proc \ {p} : call'[q] = call[q],
         call'[p].stage \notin WriteStage,
         \A x \in Path, i \in Inode :
           call'[p].path = x /\ call'[p].fd = i => file[x] = i
  PROVE  StoreInv'
<1>1. HeldOnce'
  BY DEF HeldOnce, Holds, StoreInv
<1>2. ASSUME NEW x \in Path \ overlapped PROVE PathInv(x)'
  <2>1. PathInv(x)
    BY DEF StoreInv
  <2>2. WritersOf(x)' \subseteq WritersOf(x) /\ \A q \in WritersOf(x)' : call'[q] = call[q]
    BY DEF WritersOf
  <2>3. ASSUME NEW q \in Proc, call'[q].path = x, call'[q].stage = "reading"
        PROVE  content[call'[q].fd].kind = "doc" /\ call'[q].fd # tmp[x]
    <3>1. CASE q = p
      <4>1. call'[p].fd \in Inode
        BY <2>3, <3>1 DEF CallShape
      <4>2. file[x] = call'[p].fd
        BY <2>3, <3>1, <4>1
      <4> QED  BY <2>1, <3>1, <4>1, <4>2, StoreAssumption DEF PathInv
    <3>2. CASE q # p
      BY <2>1, <2>3, <3>2 DEF PathInv
    <3> QED  BY <3>1, <3>2
  <2> QED  BY <2>1, <2>2, <2>3 DEF PathInv
<1> QED  BY <1>1, <1>2 DEF StoreInv

LEMMA CheckExistsInv ==
  ASSUME NEW p \in Proc, NEW x \in Path, StoreInv, CheckExists(p, x)
  PROVE  StoreInv'
<1> USE StoreAssumption DEF StoreInv, CheckExists, Ended
<1>1. StoreTypeOK'
  BY DEF StoreTypeOK, Call, ReadStage, EndStage, Doc
<1>2. CallShape'
  BY DEF CallShape, WriteStage, EndStage, StoreTypeOK
<1>3. /\ \A q \in Proc \ {p} : call'[q] = call[q]
      /\ call'[p].stage \notin WriteStage /\ call'[p].fd = NoInode
  BY DEF StoreTypeOK, WriteStage
<1> QED  BY <1>1, <1>2, <1>3, CallOnly

LEMMA OpenFileInv ==
  ASSUME NEW p \in Proc, StoreInv, OpenFile(p)
  PROVE  StoreInv'
<1>1. call \in [Proc -> Call] /\ file \in [Path -> Inode \cup {NoInode}]
  BY DEF StoreInv, StoreTypeOK
<1>2. call[p].path \in Path /\ call[p] \in Call
  BY <1>1 DEF StoreInv, CallShape, OpenFile
<1>3. /\ call'[p] \in Call
      /\ \/ call'[p].stage = "error" /\ call'[p].path = NoPath /\ call'[p].fd = NoInode
         \/ /\ call'[p].stage = "reading" /\ call'[p].path = call[p].path
            /\ call'[p].fd = file[call[p].path] /\ call'[p].fd \in Inode
  <2>1. CASE file[call[p].path] = NoInode
    <3>1. call'[p] = Ended("error", {})
      BY <1>1, <2>1 DEF OpenFile
    <3> QED  BY <3>1 DEF Call, EndStage, Doc, Ended
  <2>2. CASE file[call[p].path] # NoInode
    <3>1. call'[p] = [call[p] EXCEPT !.stage = "reading", !.fd = file[call[p].path]]
      BY <1>1, <2>2 DEF OpenFile
    <3>2. call'[p] = [stage |-> "reading", path |-> call[p].path,
                      fd |-> file[call[p].path], doc |-> call[p].doc]
      BY <1>2, <3>1 DEF Call
    <3>3. file[call[p].path] \in Inode /\ call[p].doc \in Doc
      BY <1>1, <1>2, <2>2 DEF Call
    <3> QED  BY <1>2, <3>2, <3>3 DEF Call, ReadStage
  <2> QED  BY <2>1, <2>2
<1>4. /\ \A q \in Proc \ {p} : call'[q] = call[q]
      /\ DOMAIN call' = Proc /\ call' = [q \in Proc |-> call'[q]]
      /\ UNCHANGED <<file, tmp, content, overlapped>>
  BY <1>1 DEF OpenFile
<1>5. call' \in [Proc -> Call]
  BY <1>1, <1>3, <1>4
<1>6. StoreTypeOK'
  BY <1>4, <1>5 DEF StoreInv, StoreTypeOK
<1>7. CallShape'
  BY <1>2, <1>3, <1>4 DEF StoreInv, CallShape, WriteStage, EndStage
<1>8. /\ call'[p].stage \notin WriteStage
      /\ \A x \in Path, i \in Inode : call'[p].path = x /\ call'[p].fd = i => file[x] = i
  BY <1>3, StoreAssumption DEF WriteStage
<1> QED  BY <1>4, <1>6, <1>7, <1>8, CallOnly

LEMMA LoadFileInv ==
  ASSUME NEW p \in Proc, StoreInv, LoadFile(p)
  PROVE  StoreInv'
<1> USE StoreAssumption DEF LoadFile, Ended
<1>1. call \in [Proc -> Call] /\ content \in [Inode -> Content]
  BY DEF StoreInv, StoreTypeOK
<1>2. content[call[p].fd].doc \in Doc
  <2>1. call[p].fd \in Inode
    BY DEF StoreInv, CallShape
  <2> QED  BY <1>1, <2>1 DEF Content
<1>3. \E s \in {"ok", "error"}, d \in Doc : call'[p] = Ended(s, d)
  BY <1>1, <1>2 DEF Doc
<1>4. \A q \in Proc \ {p} : call'[q] = call[q]
  BY <1>1
<1>5. call' \in [Proc -> Call]
  <2>1. call'[p] \in Call
    BY <1>3 DEF Call, EndStage
  <2> QED  BY <1>1, <2>1
<1>6. StoreTypeOK'
  BY <1>5 DEF StoreInv, StoreTypeOK
<1>7. CallShape'
  BY <1>3, <1>4 DEF StoreInv, CallShape, WriteStage, EndStage
<1>8. call'[p].stage \notin WriteStage /\ call'[p].fd = NoInode
  BY <1>3 DEF WriteStage
<1> QED  BY <1>4, <1>6, <1>7, <1>8, CallOnly

LEMMA KillCallInv ==
  ASSUME NEW p \in Proc, StoreInv, KillCall(p)
  PROVE  StoreInv'
<1> USE StoreAssumption DEF KillCall, Idle, Ended
<1>1. call \in [Proc -> Call]
  BY DEF StoreInv, StoreTypeOK
<1>2. call'[p] = Ended("idle", {}) /\ \A q \in Proc \ {p} : call'[q] = call[q]
  BY <1>1
<1>3. call' \in [Proc -> Call]
  <2>1. call'[p] \in Call
    BY <1>2 DEF Call, EndStage, Doc
  <2> QED  BY <1>1, <2>1
<1>4. StoreTypeOK'
  BY <1>3 DEF StoreInv, StoreTypeOK
<1>5. CallShape'
  BY <1>2 DEF StoreInv, CallShape, WriteStage, EndStage
<1>6. call'[p].stage \notin WriteStage /\ call'[p].fd = NoInode
  BY <1>2 DEF WriteStage
<1> QED  BY <1>2, <1>4, <1>5, <1>6, CallOnly

-----------------------------------------------------------------------------
(* A step of a call at the path x writes only to inodes of x or to free    *)
(* ones, so that it leaves the other paths alone.                          *)
LEMMA OtherPath ==
  ASSUME StoreInv, NEW x \in Path, NEW y \in Path \ overlapped, x # y,
         file'[y] = file[y], tmp'[y] = tmp[y],
         \A q \in Proc : call'[q] = call[q] \/ (call[q].path # y /\ call'[q].path # y),
         \A i \in Inode : content'[i] = content[i] \/ Holds(x, i) \/ i \in FreeInodes
  PROVE  PathInv(y)'
<1>1. PathInv(y) /\ CallShape /\ file[y] \in Inode \cup {NoInode}
  BY DEF StoreInv, StoreTypeOK
<1>2. ASSUME NEW i \in Inode, Holds(y, i) PROVE content'[i] = content[i]
  <2>1. i \notin FreeInodes
    BY <1>2 DEF Holds, FreeInodes, InodesInUse
  <2>2. ~Holds(x, i)
    BY <1>2 DEF StoreInv, HeldOnce
  <2> QED  BY <2>1, <2>2
<1> QED  BY <1>1, <1>2, PathFrame

(* What a writer of x does to its handle, no other file of x sees.         *)
LEMMA WriterStep ==
  ASSUME NEW p \in Proc, StoreInv, call[p].stage \in WriteStage,
         UNCHANGED <<file, tmp, overlapped>>,
         content' \in [Inode -> Content], call'[p] \in Call,
         call' = [call EXCEPT ![p] = call'[p]],
         \A i \in Inode : content'[i] = content[i] \/ i = call[p].fd,
         \/ /\ call'[p].stage = "closed"
            /\ call'[p].path = call[p].path /\ call'[p].fd = call[p].fd
            /\ call[p].path \notin overlapped => content'[call[p].fd] = Text(call'[p].doc)
         \/ call'[p].stage \in EndStage /\ call'[p].path = NoPath /\ call'[p].fd = NoInode
  PROVE  StoreInv'
<1>0. PICK x \in Path : x = call[p].path
  BY DEF StoreInv, CallShape
<1>1. /\ call[p].path = x /\ call[p].fd \in Inode
      /\ call \in [Proc -> Call] /\ \A q \in Proc \ {p} : call'[q] = call[q]
      /\ \A y \in Path : file[y] \in Inode \cup {NoInode}
  BY <1>0 DEF StoreInv, StoreTypeOK, CallShape
<1>2. StoreTypeOK'
  BY <1>1 DEF StoreInv, StoreTypeOK
<1>3. CallShape'
  BY <1>1 DEF StoreInv, CallShape, WriteStage, EndStage
<1>4. HeldOnce'
  BY <1>1, StoreAssumption DEF StoreInv, HeldOnce, Holds
<1>5. ASSUME NEW y \in Path \ overlapped, y # x PROVE PathInv(y)'
  <2>1. \A q \in Proc : call'[q] = call[q] \/ (call[q].path # y /\ call'[q].path # y)
    BY <1>1, <1>5, StoreAssumption
  <2>2. Holds(x, call[p].fd)
    BY <1>1 DEF Holds
  <2> QED  BY <1>1, <1>5, <2>1, <2>2, OtherPath
<1>6. ASSUME x \notin overlapped PROVE PathInv(x)'
  <2>1. PathInv(x) /\ p \in WritersOf(x)
    BY <1>1, <1>6 DEF StoreInv, WritersOf
  <2>2. call[p].fd = tmp[x] /\ \A q \in WritersOf(x) : q = p
    BY <2>1 DEF PathInv
  <2>3. WritersOf(x)' \subseteq {p}
    BY <1>1, <2>2 DEF WritersOf
  <2>4. \A q \in WritersOf(x)' :
          call'[q].fd = tmp[x] /\ call'[q].stage = "closed" /\ content'[tmp[x]] = Text(call'[q].doc)
    <3> SUFFICES ASSUME p \in WritersOf(x)'
                 PROVE  call'[p].fd = tmp[x] /\ call'[p].stage = "closed"
                          /\ content'[tmp[x]] = Text(call'[p].doc)
      BY <2>3
    <3>1. call'[p].stage \notin EndStage
      BY DEF WritersOf, WriteStage, EndStage
    <3> QED  BY <1>1, <1>6, <2>2, <3>1
  <2>5. file[x] # NoInode => content'[file[x]] = content[file[x]]
    BY <1>1, <2>1, <2>2 DEF PathInv
  <2>6. ASSUME NEW q \in Proc, call'[q].path = x, call'[q].stage = "reading"
        PROVE  content'[call'[q].fd].kind = "doc" /\ call'[q].fd # tmp[x]
    <3>1. q # p
      BY <2>6 DEF EndStage
    <3>2. call'[q] = call[q]
      BY <1>1, <3>1
    <3>3. content[call[q].fd].kind = "doc" /\ call[q].fd # tmp[x]
      BY <2>1, <2>6, <3>2 DEF PathInv
    <3>4. call[q].fd \in Inode
      BY <2>6, <3>2 DEF StoreInv, CallShape
    <3> QED  BY <2>2, <3>2, <3>3, <3>4
  <2> QED  BY <2>1, <2>3, <2>4, <2>5, <2>6 DEF PathInv
<1>7. \A y \in Path \ overlapped : PathInv(y)'
  BY <1>5, <1>6
<1> QED  BY <1>2, <1>3, <1>4, <1>7 DEF StoreInv

LEMMA CloseTmpInv ==
  ASSUME NEW p \in Proc, StoreInv, CloseTmp(p)
  PROVE  StoreInv'
<1>1. /\ call \in [Proc -> Call] /\ content \in [Inode -> Content]
      /\ call[p] \in Call /\ call[p].stage = "writing"
      /\ call[p].path \in Path /\ call[p].fd \in Inode
  BY DEF StoreInv, StoreTypeOK, CallShape, CloseTmp, WriteStage
<1>2. PICK c \in Overwrite(content[call[p].fd], call[p].doc) :
        content' = [content EXCEPT ![call[p].fd] = c]
  BY DEF CloseTmp
<1>3. c \in Content
  <2>1. call[p].doc \in Doc
    BY <1>1 DEF Call
  <2> QED  BY <2>1, <1>2 DEF Overwrite, Content, Text, Torn, Doc
<1>4. call[p].path \notin overlapped => c = Text(call[p].doc)
  <2> SUFFICES ASSUME call[p].path \notin overlapped PROVE c = Text(call[p].doc)
    OBVIOUS
  <2>1. p \in WritersOf(call[p].path) /\ PathInv(call[p].path)
    BY <1>1 DEF StoreInv, WritersOf, WriteStage
  <2>2. content[call[p].fd] = Blank
    BY <1>1, <2>1 DEF PathInv
  <2> QED  BY <1>2, <2>2 DEF Overwrite, Blank
<1>5. /\ content' \in [Inode -> Content]
      /\ content'[call[p].fd] = c
      /\ \A i \in Inode : content'[i] = content[i] \/ i = call[p].fd
  BY <1>1, <1>2, <1>3
<1>6. call'[p] = [stage |-> "closed", path |-> call[p].path, fd |-> call[p].fd, doc |-> call[p].doc]
  BY <1>1 DEF CloseTmp, Call
<1>7. call'[p] \in Call /\ call' = [call EXCEPT ![p] = call'[p]]
  BY <1>1, <1>6 DEF CloseTmp, Call, WriteStage
<1>8. UNCHANGED <<file, tmp, overlapped>> /\ call[p].stage \in WriteStage
  BY <1>1 DEF CloseTmp, WriteStage
<1> QED  BY <1>4, <1>5, <1>6, <1>7, <1>8, WriterStep

LEMMA DumpFailsInv ==
  ASSUME NEW p \in Proc, StoreInv, DumpFails(p)
  PROVE  StoreInv'
<1>1. /\ call \in [Proc -> Call] /\ content \in [Inode -> Content]
      /\ call[p].stage \in WriteStage /\ call[p].fd \in Inode
  BY DEF StoreInv, StoreTypeOK, CallShape, DumpFails, WriteStage
<1>2. PICK c \in {content[call[p].fd], Torn} :
        content' = [content EXCEPT ![call[p].fd] = c]
  BY DEF DumpFails
<1>3. c \in Content
  BY <1>1, <1>2 DEF Content, Torn, Doc
<1>4. /\ content' \in [Inode -> Content]
      /\ \A i \in Inode : content'[i] = content[i] \/ i = call[p].fd
  BY <1>1, <1>2, <1>3
<1>5. call'[p] = Ended("error", {})
  BY <1>1 DEF DumpFails
<1>6. call'[p] \in Call /\ call' = [call EXCEPT ![p] = call'[p]]
  BY <1>1, <1>5 DEF DumpFails, Call, EndStage, Ended, Doc
<1>7. call'[p].stage \in EndStage /\ call'[p].path = NoPath /\ call'[p].fd = NoInode
  BY <1>5 DEF Ended, EndStage
<1>8. UNCHANGED <<file, tmp, overlapped>>
  BY DEF DumpFails
<1> QED  BY <1>1, <1>4, <1>6, <1>7, <1>8, WriterStep

LEMMA ReplaceFileInv ==
  ASSUME NEW p \in Proc, StoreInv, ReplaceFile(p)
  PROVE  StoreInv'
<1>0. PICK x \in Path : x = call[p].path
  BY DEF StoreInv, CallShape, ReplaceFile, WriteStage
<1>1. /\ call \in [Proc -> Call] /\ call[p].path = x /\ call[p].stage = "closed"
      /\ file \in [Path -> Inode \cup {NoInode}] /\ tmp \in [Path -> Inode \cup {NoInode}]
      /\ content \in [Inode -> Content]
      /\ call[p].fd \in Inode
  BY <1>0 DEF StoreInv, StoreTypeOK, CallShape, ReplaceFile, WriteStage
<1>2. \E s \in {"ok", "error"} : call'[p] = Ended(s, {})
  BY <1>1 DEF ReplaceFile
<1>3. call'[p] \in Call
  BY <1>2 DEF Call, EndStage, Ended, Doc
<1>4. /\ \A q \in Proc \ {p} : call'[q] = call[q]
      /\ call' \in [Proc -> Call]
      /\ call'[p].stage \in EndStage /\ call'[p].path = NoPath /\ call'[p].fd = NoInode
      /\ UNCHANGED <<content, overlapped>>
  <2>1. call'[p].stage \in EndStage /\ call'[p].path = NoPath /\ call'[p].fd = NoInode
    BY <1>2 DEF Ended, EndStage
  <2>2. \A q \in Proc \ {p} : call'[q] = call[q]
    BY <1>1 DEF ReplaceFile
  <2>3. DOMAIN call' = Proc /\ call' = [q \in Proc |-> call'[q]]
    BY <1>1 DEF ReplaceFile
  <2> QED  BY <1>1, <1>3, <2>1, <2>2, <2>3 DEF ReplaceFile
<1>5. \/ UNCHANGED <<file, tmp>> /\ tmp[x] = NoInode
      \/ /\ file' = [file EXCEPT ![x] = tmp[x]]
         /\ tmp' = [tmp EXCEPT ![x] = NoInode]
         /\ tmp[x] \in Inode
  BY <1>1 DEF ReplaceFile
<1>6. StoreTypeOK'
  BY <1>1, <1>4, <1>5 DEF StoreInv, StoreTypeOK
<1>7. CallShape'
  BY <1>4 DEF StoreInv, CallShape, WriteStage, EndStage
<1>8. HeldOnce'
  <2>1. \A y \in Path, i \in Inode : Holds(y, i)' => Holds(y, i)
    BY <1>1, <1>4, <1>5, StoreAssumption DEF Holds
  <2> QED  BY <2>1 DEF StoreInv, HeldOnce
<1>9. ASSUME NEW y \in Path \ overlapped, y # x PROVE PathInv(y)'
  <2>1. file'[y] = file[y] /\ tmp'[y] = tmp[y]
    BY <1>1, <1>5, <1>9
  <2>2. \A q \in Proc : call'[q] = call[q] \/ (call[q].path # y /\ call'[q].path # y)
    BY <1>1, <1>4, <1>9, StoreAssumption
  <2> QED  BY <1>4, <1>9, <2>1, <2>2, OtherPath
<1>10. ASSUME x \notin overlapped PROVE PathInv(x)'
  <2>1. PathInv(x) /\ p \in WritersOf(x)
    BY <1>1, <1>10 DEF StoreInv, WritersOf, WriteStage
  <2>2. /\ call[p].fd = tmp[x] /\ content[tmp[x]] = Text(call[p].doc)
        /\ \A q \in WritersOf(x) : q = p
    BY <1>1, <2>1 DEF PathInv
  <2>3. WritersOf(x)' = {}
    BY <1>4, <2>2, StoreAssumption DEF WritersOf
  <2>4. file'[x] = tmp[x] /\ tmp'[x] = NoInode
    BY <1>1, <1>5, <2>2, StoreAssumption
  <2>5. content'[file'[x]].kind = "doc" /\ file'[x] # tmp'[x]
    BY <1>1, <1>4, <2>2, <2>4, StoreAssumption DEF Text
  <2>6. ASSUME NEW q \in Proc, call'[q].path = x, call'[q].stage = "reading"
        PROVE  content'[call'[q].fd].kind = "doc" /\ call'[q].fd # tmp'[x]
    <3>1. call'[q] = call[q]
      BY <1>4, <2>6 DEF EndStage
    <3>2. call[q].fd \in Inode
      BY <2>6, <3>1 DEF StoreInv, CallShape
    <3> QED  BY <1>4, <2>1, <2>4, <2>6, <3>1, <3>2, StoreAssumption DEF PathInv
  <2> QED  BY <2>3, <2>5, <2>6 DEF PathInv
<1>11. \A y \in Path \ overlapped' : PathInv(y)'
  BY <1>4, <1>9, <1>10
<1> QED  BY <1>6, <1>7, <1>8, <1>11 DEF StoreInv

LEMMA OpenTmpInv ==
  ASSUME NEW p \in Proc, NEW x \in Path, NEW d \in Doc, StoreInv, OpenTmp(p, x, d)
  PROVE  StoreInv'
<1>1. /\ call \in [Proc -> Call] /\ content \in [Inode -> Content]
      /\ tmp \in [Path -> Inode \cup {NoInode}] /\ file \in [Path -> Inode \cup {NoInode}]
      /\ overlapped \in SUBSET Path
      /\ call[p].stage \in EndStage /\ call[p].path = NoPath /\ UNCHANGED file
  BY DEF StoreInv, StoreTypeOK, CallShape, OpenTmp, Ready
<1>2. PICK i : /\ i = IF tmp[x] = NoInode THEN CHOOSE j \in FreeInodes : TRUE ELSE tmp[x]
               /\ tmp' = [tmp EXCEPT ![x] = i]
               /\ content' = [content EXCEPT ![i] = Blank]
               /\ call' = [call EXCEPT ![p] =
                             [stage |-> "writing", path |-> x, fd |-> i, doc |-> d]]
  BY DEF OpenTmp, Truncated
<1>3. i \in Inode /\ (i \in FreeInodes \/ i = tmp[x])
  <2>1. CASE tmp[x] = NoInode
    <3>1. FreeInodes # {}
      BY <2>1 DEF OpenTmp
    <3>2. i \in FreeInodes
      BY <1>2, <2>1, <3>1
    <3> QED  BY <3>2 DEF FreeInodes
  <2>2. CASE tmp[x] # NoInode
    BY <1>1, <1>2, <2>2
  <2> QED  BY <2>1, <2>2
<1>4. \A y \in Path \ {x} : ~Holds(y, i)
  BY <1>3 DEF StoreInv, HeldOnce, Holds, FreeInodes, InodesInUse
<1>5. overlapped' = IF WritersOf(x) = {} THEN overlapped ELSE overlapped \cup {x}
  BY DEF OpenTmp
<1>6. /\ call'[p] = [stage |-> "writing", path |-> x, fd |-> i, doc |-> d]
      /\ \A q \in Proc \ {p} : call'[q] = call[q]
  BY <1>1, <1>2
<1>7. call' \in [Proc -> Call]
  <2>1. [stage |-> "writing", path |-> x, fd |-> i, doc |-> d] \in Call
    BY <1>3 DEF Call, WriteStage
  <2> QED  BY <1>1, <1>2, <2>1
<1>8. content' \in [Inode -> Content] /\ content'[i] = Blank
  <2>1. Blank \in Content
    BY DEF Blank, Content, Doc
  <2> QED  BY <1>1, <1>2, <1>3, <2>1
<1>9. StoreTypeOK'
  <2>1. tmp' \in [Path -> Inode \cup {NoInode}] /\ overlapped' \in SUBSET Path
    BY <1>1, <1>2, <1>3, <1>5
  <2> QED  BY <1>1, <1>7, <1>8, <2>1 DEF StoreTypeOK
<1>10. CallShape'
  BY <1>3, <1>6 DEF StoreInv, CallShape, WriteStage, EndStage
<1>11. HeldOnce'
  <2>1. \A y \in Path, j \in Inode : Holds(y, j)' => Holds(y, j) \/ (y = x /\ j = i)
    BY <1>1, <1>2, <1>6 DEF Holds
  <2> QED  BY <1>4, <2>1 DEF StoreInv, HeldOnce
<1>12. ASSUME NEW y \in Path \ overlapped, y # x PROVE PathInv(y)'
  <2>1. tmp'[y] = tmp[y]
    BY <1>1, <1>2, <1>12
  <2>2. \A q \in Proc : call'[q] = call[q] \/ (call[q].path # y /\ call'[q].path # y)
    BY <1>1, <1>6, <1>12, StoreAssumption
  <2>3. \A j \in Inode : content'[j] = content[j] \/ Holds(x, j) \/ j \in FreeInodes
    BY <1>1, <1>2, <1>3 DEF Holds
  <2> QED  BY <1>1, <1>12, <2>1, <2>2, <2>3, OtherPath
<1>13. ASSUME x \notin overlapped' PROVE PathInv(x)'
  <2>1. WritersOf(x) = {} /\ x \notin overlapped
    BY <1>5, <1>13
  <2>2. PathInv(x)
    BY <2>1 DEF StoreInv
  <2>3. WritersOf(x)' \subseteq {p}
    BY <1>6, <2>1 DEF WritersOf
  <2>4. tmp'[x] = i
    BY <1>1, <1>2
  <2>5. call'[p].fd = tmp'[x] /\ call'[p].stage = "writing" /\ content'[tmp'[x]] = Blank
    BY <1>6, <1>8, <2>4
  <2>6. file[x] # NoInode => content'[file[x]] = content[file[x]] /\ file[x] # i
    <3>1. file[x] # NoInode => file[x] # i
      BY <1>3, <2>2 DEF PathInv, FreeInodes, InodesInUse
    <3> QED  BY <1>1, <1>2, <3>1
  <2>7. ASSUME NEW q \in Proc, call'[q].path = x, call'[q].stage = "reading"
        PROVE  content'[call'[q].fd].kind = "doc" /\ call'[q].fd # tmp'[x]
    <3>1. q # p
      BY <1>6, <2>7
    <3>2. call'[q] = call[q]
      BY <1>6, <3>1
    <3>3. content[call[q].fd].kind = "doc" /\ call[q].fd # tmp[x] /\ call[q].fd \in Inode
      BY <2>2, <2>7, <3>2 DEF StoreInv, CallShape, PathInv
    <3>4. call[q].fd # i
      BY <1>3, <3>3 DEF FreeInodes, InodesInUse
    <3> QED  BY <1>1, <1>2, <2>4, <3>2, <3>3, <3>4
  <2>8. /\ \A q, r \in WritersOf(x)' : q = r
        /\ \A q \in WritersOf(x)' :
             /\ call'[q].fd = tmp'[x]
             /\ content'[tmp'[x]] = IF call'[q].stage = "closed" THEN Text(call'[q].doc) ELSE Blank
    BY <2>3, <2>5
  <2>9. file'[x] # NoInode => content'[file'[x]].kind = "doc" /\ file'[x] # tmp'[x]
    BY <1>1, <2>2, <2>4, <2>6 DEF PathInv
  <2> QED  BY <2>7, <2>8, <2>9 DEF PathInv
<1>14. \A y \in Path \ overlapped' : PathInv(y)'
  BY <1>5, <1>12, <1>13
<1> QED  BY <1>9, <1>10, <1>11, <1>14 DEF StoreInv

-----------------------------------------------------------------------------
LEMMA CallStepInv ==
  ASSUME NEW p \in Proc, StoreInv, CallStep(p)
  PROVE  StoreInv'
  BY CloseTmpInv, DumpFailsInv, ReplaceFileInv, OpenFileInv, LoadFileInv DEF CallStep

LEMMA IdleStepInv ==
  ASSUME StoreInv, UNCHANGED storeVars
  PROVE  StoreInv'
  BY DEF StoreInv, StoreTypeOK, CallShape, HeldOnce, Holds, PathInv, WritersOf, storeVars

(* No step of a call takes the file at a path away.                        *)
LEMMA CallStepKeepsFiles ==
  ASSUME NEW p \in Proc, StoreInv, CallStep(p), NEW x \in Path, file[x] # NoInode
  PROVE  file'[x] # NoInode
<1>1. CASE ReplaceFile(p)
  BY <1>1, StoreAssumption DEF ReplaceFile, StoreInv, StoreTypeOK
<1>2. CASE ~ReplaceFile(p)
  BY <1>2 DEF CallStep, CloseTmp, DumpFails, OpenFile, LoadFile
<1> QED  BY <1>1, <1>2

-----------------------------------------------------------------------------
(* An inode that readers of the path x see: the file at x, or a file that  *)
(* a read_json of x holds open.                                            *)
Seen(x, i) ==
  \/ file[x] = i
  \/ \E q \in Proc : call[q].path = x /\ call[q].stage = "reading" /\ call[q].fd = i

(* Nobody writes to a file that readers of a path see.                     *)
LEMMA CallStepKeepsSeen ==
  ASSUME NEW p \in Proc, StoreInv, CallStep(p),
         NEW x \in Path \ overlapped, NEW i \in Inode, Seen(x, i)
  PROVE  content'[i] = content[i]
<1>1. content \in [Inode -> Content] /\ PathInv(x)
  BY DEF StoreInv, StoreTypeOK
<1>2. CASE OpenFile(p) \/ LoadFile(p) \/ ReplaceFile(p)
  BY <1>2 DEF OpenFile, LoadFile, ReplaceFile
<1>3. CASE CloseTmp(p) \/ DumpFails(p)
  <2>1. call[p].stage = "writing" /\ \A j \in Inode : j # call[p].fd => content'[j] = content[j]
    BY <1>1, <1>3 DEF CloseTmp, DumpFails
  <2>2. call[p].path \in Path /\ call[p].fd \in Inode
    BY <2>1 DEF StoreInv, CallShape, WriteStage
  <2>3. Holds(call[p].path, call[p].fd) /\ Holds(x, i)
    BY DEF Holds, Seen
  <2>4. call[p].path # x => call[p].fd # i
    BY <2>2, <2>3 DEF StoreInv, HeldOnce
  <2>5. ASSUME call[p].path = x PROVE call[p].fd # i
    <3>1. p \in WritersOf(x)
      BY <2>1, <2>5 DEF WritersOf, WriteStage
    <3>2. call[p].fd = tmp[x]
      BY <1>1, <3>1 DEF PathInv
    <3> QED  BY <1>1, <3>2, StoreAssumption DEF PathInv, Seen
  <2> QED  BY <2>1, <2>4, <2>5
<1> QED  BY <1>2, <1>3 DEF CallStep

LEMMA OpenTmpKeepsSeen ==
  ASSUME NEW p \in Proc, NEW y \in Path, NEW d, StoreInv, OpenTmp(p, y, d),
         NEW x \in Path \ overlapped, NEW i \in Inode, Seen(x, i)
  PROVE  content'[i] = content[i]
<1>1. /\ content \in [Inode -> Content] /\ PathInv(x)
      /\ tmp[y] \in Inode \cup {NoInode}
  BY DEF StoreInv, StoreTypeOK
<1>2. PICK j : /\ j = IF tmp[y] = NoInode THEN CHOOSE k \in FreeInodes : TRUE ELSE tmp[y]
               /\ content' = [content EXCEPT ![j] = Truncated(@)]
  BY DEF OpenTmp
<1>3. j # i
  <2>1. CASE tmp[y] = NoInode
    <3>1. FreeInodes # {}
      BY <2>1 DEF OpenTmp
    <3>2. j \in FreeInodes
      BY <1>2, <2>1, <3>1
    <3>3. i \notin FreeInodes
      BY DEF Seen, FreeInodes, InodesInUse
    <3> QED  BY <3>2, <3>3
  <2>2. CASE tmp[y] # NoInode
    <3>1. j = tmp[y] /\ j \in Inode
      BY <1>1, <1>2, <2>2
    <3>2. Holds(y, j) /\ Holds(x, i)
      BY <3>1 DEF Holds, Seen
    <3>3. CASE y = x
      BY <1>1, <3>1, <3>3, StoreAssumption DEF PathInv, Seen
    <3>4. CASE y # x
      BY <3>1, <3>2, <3>4 DEF StoreInv, HeldOnce
    <3> QED  BY <3>3, <3>4
  <2> QED  BY <2>1, <2>2
<1> QED  BY <1>1, <1>2, <1>3

(* What a reader of x gets changes only when a write_json of x replaces    *)
(* the file, to the document of that write.                                *)
LEMMA CallStepFile ==
  ASSUME NEW p \in Proc, StoreInv, CallStep(p), NEW x \in Path \ overlapped
  PROVE  \/ Current(x)' = Current(x) /\ file'[x] = file[x]
         \/ /\ call[p].path = x /\ call[p].stage = "closed"
            /\ Current(x)' = Text(call[p].doc) /\ call'[p] = Ended("ok", {})
<1>1. /\ PathInv(x) /\ call \in [Proc -> Call]
      /\ file \in [Path -> Inode \cup {NoInode}] /\ tmp \in [Path -> Inode \cup {NoInode}]
  BY DEF StoreInv, StoreTypeOK
<1>2. ASSUME file'[x] = file[x] PROVE Current(x)' = Current(x)
  <2>1. file[x] # NoInode => content'[file[x]] = content[file[x]]
    <3> SUFFICES ASSUME file[x] # NoInode PROVE content'[file[x]] = content[file[x]]
      OBVIOUS
    <3>1. file[x] \in Inode /\ Seen(x, file[x])
      BY <1>1 DEF Seen
    <3> QED  BY <3>1, CallStepKeepsSeen
  <2> QED  BY <1>2, <2>1 DEF Current, Missing
<1>3. ASSUME file'[x] # file[x]
      PROVE  /\ call[p].path = x /\ call[p].stage = "closed"
             /\ Current(x)' = Text(call[p].doc) /\ call'[p] = Ended("ok", {})
  <2>1. ReplaceFile(p)
    BY <1>3 DEF CallStep, CloseTmp, DumpFails, OpenFile, LoadFile
  <2>2. /\ call[p].path = x /\ call[p].stage = "closed" /\ tmp[x] # NoInode
        /\ file'[x] = tmp[x] /\ call'[p] = Ended("ok", {}) /\ content' = content
    BY <1>1, <1>3, <2>1 DEF ReplaceFile
  <2>3. p \in WritersOf(x)
    BY <2>2 DEF WritersOf, WriteStage
  <2>4. content[tmp[x]] = Text(call[p].doc)
    BY <1>1, <2>2, <2>3 DEF PathInv
  <2> QED  BY <2>2, <2>4 DEF Current
<1> QED  BY <1>2, <1>3

LEMMA OpenTmpFile ==
  ASSUME NEW p \in Proc, NEW y \in Path, NEW d, StoreInv, OpenTmp(p, y, d),
         NEW x \in Path \ overlapped
  PROVE  Current(x)' = Current(x) /\ file' = file
<1>1. file' = file /\ file[x] \in Inode \cup {NoInode}
  BY DEF StoreInv, StoreTypeOK, OpenTmp
<1>2. file[x] # NoInode => content'[file[x]] = content[file[x]]
  BY <1>1, OpenTmpKeepsSeen DEF Seen
<1> QED  BY <1>1, <1>2 DEF Current, Missing

-----------------------------------------------------------------------------
(* What a step of the call of p makes of the calls.                        *)
CallAfter(p) ==
  /\ \A q \in Proc \ {p} : call'[q] = call[q]
  /\ \/ /\ CloseTmp(p)
        /\ call'[p] = [stage |-> "closed", path |-> call[p].path,
                       fd |-> call[p].fd, doc |-> call[p].doc]
     \/ /\ OpenFile(p) /\ file[call[p].path] \in Inode
        /\ call'[p] = [stage |-> "reading", path |-> call[p].path,
                       fd |-> file[call[p].path], doc |-> call[p].doc]
     \/ /\ LoadFile(p) /\ content[call[p].fd].kind = "doc"
        /\ call'[p] = Ended("ok", content[call[p].fd].doc)
     \/ ReplaceFile(p) /\ call'[p] = Ended("ok", {})
     \/ /\ call'[p] = Ended("error", {})
        /\ ~CloseTmp(p) /\ (LoadFile(p) => content[call[p].fd].kind # "doc")

LEMMA CallAfterStep ==
  ASSUME NEW p \in Proc, StoreInv, CallStep(p)
  PROVE  CallAfter(p)
<1> USE DEF CallAfter
<1>1. /\ call \in [Proc -> Call] /\ file \in [Path -> Inode \cup {NoInode}]
      /\ call[p] \in Call /\ call[p].path \in Path
  BY DEF StoreInv, StoreTypeOK, CallShape, CallStep, CloseTmp, DumpFails, ReplaceFile,
         OpenFile, LoadFile, ReadStage, WriteStage
<1>2. \A q \in Proc \ {p} : call'[q] = call[q]
  BY <1>1 DEF CallStep, CloseTmp, DumpFails, ReplaceFile, OpenFile, LoadFile
<1>3. CASE CloseTmp(p)
  BY <1>1, <1>2, <1>3 DEF CloseTmp, Call
<1>4. CASE OpenFile(p)
  <2>0. ~CloseTmp(p) /\ ~LoadFile(p)
    BY <1>4 DEF OpenFile, CloseTmp, LoadFile
  <2>1. CASE file[call[p].path] = NoInode
    BY <1>1, <1>2, <1>4, <2>0, <2>1 DEF OpenFile
  <2>2. CASE file[call[p].path] # NoInode
    <3>1. call'[p] = [call[p] EXCEPT !.stage = "reading", !.fd = file[call[p].path]]
      BY <1>1, <1>4, <2>2 DEF OpenFile
    <3>2. call'[p] = [stage |-> "reading", path |-> call[p].path,
                      fd |-> file[call[p].path], doc |-> call[p].doc]
      BY <1>1, <3>1 DEF Call
    <3> QED  BY <1>1, <1>2, <1>4, <2>2, <3>2
  <2> QED  BY <2>1, <2>2
<1>5. CASE LoadFile(p)
  BY <1>1, <1>2, <1>5 DEF LoadFile, CloseTmp
<1>6. CASE DumpFails(p) /\ ~CloseTmp(p)
  BY <1>1, <1>2, <1>6 DEF DumpFails, LoadFile
<1>7. CASE ReplaceFile(p)
  BY <1>1, <1>2, <1>7 DEF ReplaceFile, CloseTmp, LoadFile
<1>8. ~(CloseTmp(p) /\ DumpFails(p)) 
  BY <1>1 DEF CloseTmp, DumpFails, Ended, Call
<1> QED  BY <1>3, <1>4, <1>5, <1>6, <1>7, <1>8 DEF CallStep

(* The documents at the path x, in its files and in the calls that are at  *)
(* it, are all of the set D.                                               *)
PathDocs(x, D) ==
  /\ \A i \in Inode : Holds(x, i) => content[i].doc \in D
  /\ \A q \in Proc : call[q].path = x => call[q].doc \in D

(* A step of a call only moves the documents of its path, or loses one.    *)
LEMMA CallStepDocs ==
  ASSUME NEW p \in Proc, StoreInv, CallStep(p),
         NEW x \in Path, NEW D, {} \in D, PathDocs(x, D)
  PROVE  PathDocs(x, D)' /\ (call[p].path = x => call'[p].doc \in D)
<1>1. /\ call \in [Proc -> Call] /\ content \in [Inode -> Content]
      /\ file \in [Path -> Inode \cup {NoInode}] /\ tmp \in [Path -> Inode \cup {NoInode}]
      /\ call[p].path \in Path
  BY DEF StoreInv, StoreTypeOK, CallShape, CallStep, CloseTmp, DumpFails, ReplaceFile,
         OpenFile, LoadFile, ReadStage, WriteStage
<1>2. CallAfter(p)
  BY CallAfterStep
<1>3. \A i \in Inode : Holds(x, i)' => Holds(x, i)
  <2>1. \A i \in Inode : file'[x] = i \/ tmp'[x] = i => Holds(x, i)
    BY <1>1, StoreAssumption
       DEF CallStep, CloseTmp, DumpFails, ReplaceFile, OpenFile, LoadFile, Holds
  <2>2. ASSUME NEW i \in Inode, call'[p].path = x, call'[p].fd = i PROVE Holds(x, i)
    BY <1>2, <2>2, StoreAssumption DEF CallAfter, Holds, Ended
  <2> QED  BY <1>2, <2>1, <2>2 DEF CallAfter, Holds
<1>4. ASSUME NEW i \in Inode, Holds(x, i) PROVE content'[i].doc \in D
  <2>1. CASE content'[i] = content[i]
    BY <1>4, <2>1 DEF PathDocs
  <2>2. CASE content'[i] # content[i]
    <3>1. CloseTmp(p) \/ DumpFails(p)
      BY <2>2 DEF CallStep, OpenFile, LoadFile, ReplaceFile
    <3>2. /\ call[p].stage = "writing" /\ i = call[p].fd
          /\ content'[i] \in Overwrite(content[i], call[p].doc) \cup {content[i], Torn}
      BY <1>1, <2>2, <3>1 DEF CloseTmp, DumpFails
    <3>3. Holds(call[p].path, i)
      BY <3>2 DEF Holds
    <3>4. call[p].path = x
      BY <1>1, <1>4, <3>3 DEF StoreInv, HeldOnce
    <3>5. call[p].doc \in D /\ content[i].doc \in D
      BY <1>4, <3>4 DEF PathDocs
    <3>6. Overwrite(content[i], call[p].doc) \subseteq {Text(call[p].doc), Torn}
      BY DEF Overwrite
    <3>7. content'[i] \in {Text(call[p].doc), Torn, content[i]}
      BY <3>2, <3>6
    <3> QED  BY <3>5, <3>7 DEF Text, Torn
  <2> QED  BY <2>1, <2>2
<1>5. ASSUME call[p].path = x PROVE call'[p].doc \in D
  <2>1. call[p].doc \in D
    BY <1>5 DEF PathDocs
  <2>2. LoadFile(p) => content[call[p].fd].doc \in D
    BY <1>5 DEF Holds, LoadFile, StoreInv, CallShape, PathDocs
  <2> QED  BY <1>2, <2>1, <2>2 DEF CallAfter, Ended
<1>6. call'[p].path = x => call[p].path = x
  BY <1>2, StoreAssumption DEF CallAfter, Ended
<1> QED  BY <1>2, <1>3, <1>4, <1>5, <1>6 DEF CallAfter, PathDocs

(* A write_json of the path y that begins brings its document to y.        *)
LEMMA OpenTmpDocs ==
  ASSUME NEW p \in Proc, NEW y \in Path, NEW d, StoreInv, OpenTmp(p, y, d),
         NEW x \in Path, NEW D, {} \in D, PathDocs(x, D), x = y => d \in D
  PROVE  PathDocs(x, D)'
<1>1. /\ call \in [Proc -> Call] /\ content \in [Inode -> Content]
      /\ tmp \in [Path -> Inode \cup {NoInode}] /\ UNCHANGED file
  BY DEF StoreInv, StoreTypeOK, OpenTmp
<1>2. PICK j : /\ tmp' = [tmp EXCEPT ![y] = j]
               /\ content' = [content EXCEPT ![j] = Blank]
               /\ call' = [call EXCEPT ![p] =
                             [stage |-> "writing", path |-> y, fd |-> j, doc |-> d]]
  BY DEF OpenTmp, Truncated
<1>3. /\ call'[p] = [stage |-> "writing", path |-> y, fd |-> j, doc |-> d]
      /\ \A q \in Proc \ {p} : call'[q] = call[q]
  BY <1>1, <1>2
<1>4. ASSUME NEW i \in Inode, Holds(x, i)' PROVE content'[i].doc \in D
  <2>1. CASE i = j
    BY <1>1, <1>2, <2>1 DEF Blank
  <2>2. CASE i # j
    <3>1. Holds(x, i)
      BY <1>1, <1>2, <1>3, <1>4, <2>2 DEF Holds
    <3> QED  BY <1>1, <1>2, <2>2, <3>1 DEF PathDocs
  <2> QED  BY <2>1, <2>2
<1> QED  BY <1>3, <1>4 DEF PathDocs

(* A read_json that begins, a kill and a step of no call change no file.   *)
LEMMA CheckExistsDocs ==
  ASSUME NEW p \in Proc, NEW y \in Path, StoreInv, CheckExists(p, y),
         NEW x \in Path, NEW D, {} \in D, PathDocs(x, D)
  PROVE  PathDocs(x, D)' /\ call'[p].doc \in D
<1>1. call \in [Proc -> Call]
  BY DEF StoreInv, StoreTypeOK
<1>2. /\ call'[p].doc = {} /\ call'[p].fd = NoInode
      /\ \A q \in Proc \ {p} : call'[q] = call[q]
      /\ UNCHANGED <<file, tmp, content>>
  BY <1>1 DEF CheckExists, Ended
<1> QED  BY <1>2, StoreAssumption DEF PathDocs, Holds

LEMMA KillCallDocs ==
  ASSUME NEW p \in Proc, StoreInv, KillCall(p),
         NEW x \in Path, NEW D, {} \in D, PathDocs(x, D)
  PROVE  PathDocs(x, D)'
<1>1. call \in [Proc -> Call]
  BY DEF StoreInv, StoreTypeOK
<1>2. /\ call'[p].doc = {} /\ call'[p].fd = NoInode
      /\ \A q \in Proc \ {p} : call'[q] = call[q]
      /\ UNCHANGED <<file, tmp, content>>
  BY <1>1 DEF KillCall, Idle, Ended
<1> QED  BY <1>2, StoreAssumption DEF PathDocs, Holds

LEMMA IdleDocs ==
  ASSUME UNCHANGED storeVars, NEW x, NEW D, PathDocs(x, D)
  PROVE  PathDocs(x, D)'
  BY DEF PathDocs, Holds, storeVars

LEMMA InitDocs ==
  ASSUME StoreInit, NEW x, NEW D, {} \in D
  PROVE  PathDocs(x, D)
  BY DEF PathDocs, StoreInit, Blank, Idle, Ended

LEMMA CurrentDoc ==
  ASSUME StoreInv, NEW x \in Path, NEW D, {} \in D, PathDocs(x, D)
  PROVE  Current(x).doc \in D
  BY DEF PathDocs, Current, Missing, Holds, StoreInv, StoreTypeOK
(* A write_json that has returned has left its document at its path.       *)
LEMMA ReplacedCurrent ==
  ASSUME NEW p \in Proc, StoreInv, ReplaceFile(p), call'[p].stage = "ok",
         NEW x \in Path \ overlapped, call[p].path = x
  PROVE  Current(x)' = Text(call[p].doc)
<1>1. /\ PathInv(x) /\ call \in [Proc -> Call] /\ file \in [Path -> Inode \cup {NoInode}]
      /\ call[p].stage = "closed" /\ content' = content
  BY DEF StoreInv, StoreTypeOK, ReplaceFile
<1>2. p \in WritersOf(x)
  BY <1>1 DEF WritersOf, WriteStage
<1>3. content[tmp[x]] = Text(call[p].doc) /\ call[p].fd = tmp[x] /\ call[p].fd \in Inode
  BY <1>1, <1>2 DEF PathInv, StoreInv, CallShape, WriteStage
<1>4. file'[x] = tmp[x]
  BY <1>1, <1>3, StoreAssumption DEF ReplaceFile
<1> QED  BY <1>1, <1>3, <1>4, StoreAssumption DEF Current
-----------------------------------------------------------------------------
(* What these lemmas show of the processes of StoreClients.                *)
ClientInv == StoreInv /\ clientCalls \in 0..MaxClientCalls /\ clientKills \in 0..MaxClientKills

LEMMA ClientInitInv == ClientInit => ClientInv
  BY StoreInitInv, ClientAssumption DEF ClientInit, ClientInv

LEMMA ClientStepInv == ClientInv /\ [ClientNext]_clientVars => ClientInv'
<1> SUFFICES ASSUME ClientInv, [ClientNext]_clientVars PROVE ClientInv'
  OBVIOUS
<1> USE ClientAssumption
<1>1. ASSUME NEW p \in Proc, ClientWrite(p) PROVE ClientInv'
  <2>1. PICK x \in Path, d \in Docs : OpenTmp(p, x, d)
    BY <1>1 DEF ClientWrite
  <2>2. d \in Doc
    BY DEF Doc
  <2>3. StoreInv'
    BY <2>1, <2>2, OpenTmpInv DEF ClientInv
  <2> QED  BY <1>1, <2>3 DEF ClientWrite, ClientInv
<1>2. ASSUME NEW p \in Proc, ClientRead(p) PROVE ClientInv'
  BY <1>2, CheckExistsInv DEF ClientRead, ClientInv
<1>3. ASSUME NEW p \in Proc, ClientStep(p) PROVE ClientInv'
  BY <1>3, CallStepInv DEF ClientStep, ClientInv
<1>4. ASSUME NEW p \in Proc, ClientKilled(p) PROVE ClientInv'
  BY <1>4, KillCallInv DEF ClientKilled, ClientInv
<1>5. CASE UNCHANGED clientVars
  BY <1>5, IdleStepInv DEF clientVars, storeVars, ClientInv
<1> QED  BY <1>1, <1>2, <1>3, <1>4, <1>5 DEF ClientNext

(* The store's invariant at every step of its clients: each open handle    *)
(* and each temporary file is that of a call which is where it says.       *)
THEOREM ClientsInvariant == ClientSpec => []ClientInv
  BY ClientInitInv, ClientStepInv, PTL DEF ClientSpec

(* The variables of the store and the counters keep their types, whatever  *)
(* calls of write_json and read_json interleave.                           *)
THEOREM ClientsTypeCorrect == ClientSpec => []ClientTypeOK
<1>1. ClientInv => ClientTypeOK
  BY DEF ClientInv, StoreInv, ClientTypeOK
<1> QED  BY <1>1, ClientsInvariant, PTL

(* For any number of processes and paths: what read_json opens is a whole  *)
(* document, and the replace of write_json finds its own, as long as no    *)
(* two writes of the path have overlapped, crashes and failures included.  *)
THEOREM FilesWhole == ClientSpec => []WholeUnlessOverlapped
<1>1. ClientInv => WholeUnlessOverlapped
  BY StoreInvWhole DEF ClientInv
<1> QED  BY <1>1, ClientsInvariant, PTL

(* A file of the store, once there, is never missing again, so the         *)
(* exists() of read_json is not stale when the file is opened.             *)
THEOREM FilesStay == ClientSpec => NeverVanishes
<1> DEFINE Stays == \A x \in Path : file[x] # NoInode => file'[x] # NoInode
<1>1. ClientInv /\ [ClientNext]_clientVars => [Stays]_storeVars
  <2> SUFFICES ASSUME ClientInv, [ClientNext]_clientVars, NEW x \in Path, file[x] # NoInode
               PROVE  file'[x] # NoInode
    OBVIOUS
  <2>1. ASSUME NEW p \in Proc, ClientStep(p) PROVE file'[x] # NoInode
    BY <2>1, CallStepKeepsFiles DEF ClientStep, ClientInv
  <2>2. ASSUME NEW p \in Proc, ClientWrite(p) \/ ClientRead(p) \/ ClientKilled(p)
        PROVE  file'[x] # NoInode
    BY <2>2 DEF ClientWrite, ClientRead, ClientKilled, OpenTmp, CheckExists, KillCall
  <2>3. CASE UNCHANGED clientVars
    BY <2>3 DEF clientVars
  <2> QED  BY <2>1, <2>2, <2>3 DEF ClientNext
<1> QED  BY <1>1, ClientsInvariant, PTL DEF ClientSpec, NeverVanishes

-----------------------------------------------------------------------------
(* The refinement: with one writer for each path, the store is an          *)
(* AtomicStore.  No two writes overlap, and a file that exists() has found *)
(* is there when it is opened.                                             *)
OneWriter == \A x \in Path : \A p, q \in Writer[x] : p = q

SerialClients ==
  /\ ClientInv
  /\ overlapped = {}
  /\ \A p \in Proc : call[p].stage \in WriteStage => p \in Writer[call[p].path]
  /\ \A p \in Proc : call[p].stage = "found" => file[call[p].path] # NoInode

LEMMA SerialInit == ClientInit => SerialClients
<1> SUFFICES ASSUME ClientInit PROVE SerialClients
  OBVIOUS
<1>1. \A p \in Proc : call[p].stage = "idle"
  BY DEF ClientInit, StoreInit, Idle, Ended
<1> QED  BY <1>1, ClientInitInv DEF ClientInit, StoreInit, SerialClients, WriteStage

LEMMA SerialNext ==
  ASSUME OneWriter, SerialClients, [ClientNext]_clientVars
  PROVE  SerialClients'
<1>1. ClientInv' /\ StoreInv /\ call \in [Proc -> Call]
  BY ClientStepInv DEF SerialClients, ClientInv, StoreInv, StoreTypeOK
<1>2. \A x \in Path : file[x] # NoInode => file'[x] # NoInode
  <2>1. ASSUME NEW p \in Proc, ClientStep(p), NEW x \in Path, file[x] # NoInode
        PROVE  file'[x] # NoInode
    BY <1>1, <2>1, CallStepKeepsFiles DEF ClientStep
  <2>2. CASE file' = file
    BY <2>2
  <2>3. file' = file \/ \E p \in Proc : ClientStep(p)
    BY DEF ClientNext, ClientWrite, ClientRead, ClientKilled, OpenTmp, CheckExists, KillCall, clientVars
  <2> QED  BY <2>1, <2>2, <2>3
<1>3. ASSUME NEW p \in Proc, ClientWrite(p) PROVE SerialClients'
  <2>1. PICK x \in Path, d \in Docs : p \in Writer[x] /\ OpenTmp(p, x, d)
    BY <1>3 DEF ClientWrite
  <2>2. WritersOf(x) = {}
    <3>1. \A q \in WritersOf(x) : q \in Writer[x] /\ call[q].stage \in WriteStage
      BY DEF WritersOf, SerialClients
    <3>2. \A q \in WritersOf(x) : q = p
      BY <2>1, <3>1 DEF OneWriter
    <3>3. call[p].stage \notin WriteStage
      BY <2>1 DEF OpenTmp, Ready, EndStage, WriteStage
    <3> QED  BY <3>1, <3>2, <3>3
  <2>3. overlapped' = {}
    BY <2>1, <2>2 DEF OpenTmp, SerialClients
  <2>4. /\ \A q \in Proc \ {p} : call'[q] = call[q]
        /\ call'[p].path = x /\ call'[p].stage = "writing"
    BY <1>1, <2>1 DEF OpenTmp
  <2>5. file' = file
    BY <2>1 DEF OpenTmp
  <2> QED  BY <1>1, <2>1, <2>3, <2>4, <2>5 DEF SerialClients
<1>4. ASSUME NEW p \in Proc, ClientRead(p) PROVE SerialClients'
  <2>1. PICK x \in Path : CheckExists(p, x)
    BY <1>4 DEF ClientRead
  <2>2. /\ \A q \in Proc \ {p} : call'[q] = call[q]
        /\ UNCHANGED <<file, overlapped>>
        /\ \/ call'[p].stage = "ok"
           \/ call'[p].stage = "found" /\ call'[p].path = x /\ file[x] # NoInode
    BY <1>1, <2>1 DEF CheckExists, Ended
  <2> QED  BY <1>1, <2>2 DEF SerialClients, WriteStage
<1>5. ASSUME NEW p \in Proc, ClientStep(p) PROVE SerialClients'
  <2>1. CallStep(p) /\ CallAfter(p)
    BY <1>1, <1>5, CallAfterStep DEF ClientStep
  <2>2. overlapped' = {}
    BY <2>1 DEF CallStep, CloseTmp, DumpFails, ReplaceFile, OpenFile, LoadFile, SerialClients
  <2>3. /\ call'[p].stage # "found"
        /\ call'[p].stage \in WriteStage => call[p].stage \in WriteStage /\ call'[p].path = call[p].path
    BY <2>1 DEF CallAfter, CloseTmp, Ended, WriteStage
  <2>4. \A q \in Proc : call[q].stage = "found" => call[q].path \in Path
    BY <1>1 DEF StoreInv, CallShape
  <2> QED  BY <1>1, <1>2, <2>1, <2>2, <2>3, <2>4 DEF CallAfter, SerialClients
<1>6. ASSUME NEW p \in Proc, ClientKilled(p) PROVE SerialClients'
  <2>1. /\ \A q \in Proc \ {p} : call'[q] = call[q]
        /\ UNCHANGED <<file, overlapped>> /\ call'[p].stage = "idle"
    BY <1>1, <1>6 DEF ClientKilled, KillCall, Idle, Ended
  <2> QED  BY <1>1, <2>1 DEF SerialClients, WriteStage
<1>7. CASE UNCHANGED clientVars
  BY <1>1, <1>7 DEF clientVars, SerialClients
<1> QED  BY <1>3, <1>4, <1>5, <1>6, <1>7 DEF ClientNext

(* A step of the process p leaves the calls of the others as they are, and *)
(* what they have read.                                                    *)
LEMMA OthersAbs ==
  ASSUME NEW p \in Proc, StoreInv,
         \A q \in Proc \ {p} : call'[q] = call[q],
         \A q \in Proc \ {p} : call[q].stage = "reading" =>
           content'[call[q].fd] = content[call[q].fd]
  PROVE  AbsReq' = [AbsReq EXCEPT ![p] = AbsReq'[p]]
<1>1. ASSUME NEW q \in Proc \ {p} PROVE AbsReq'[q] = AbsReq[q]
  BY DEF AbsReq
<1>2. AbsReq = [q \in Proc |-> AbsReq[q]] /\ AbsReq' = [q \in Proc |-> AbsReq'[q]]
  BY DEF AbsReq
<1> QED  BY <1>1, <1>2

LEMMA AbsOf ==
  ASSUME NEW p \in Proc
  PROVE  AbsReq[p] = [stage |-> AbsStage(call[p].stage), path |-> call[p].path,
                      doc |-> IF call[p].stage = "reading"
                              THEN content[call[p].fd].doc ELSE call[p].doc]
  BY DEF AbsReq

LEMMA AbsStages ==
  /\ \A s \in WriteStage : AbsStage(s) = "write"
  /\ AbsStage("found") = "read" /\ AbsStage("reading") = "snapped"
  /\ AbsStage("error") = "failed"
  /\ AbsStage("idle") = "idle" /\ AbsStage("ok") = "ok"
  BY DEF AbsStage, WriteStage

(* The stages of an AtomicStore in which a process is in no call.          *)
LEMMA AbsReady ==
  ASSUME NEW p \in Proc, Ready(p)
  PROVE  ~Abs!InCall(p)
<1>1. AbsStage(call[p].stage) \in {"idle", "ok", "failed"}
  BY AbsStages DEF Ready, EndStage
<1>2. AbsReq[p].stage = AbsStage(call[p].stage)
  BY DEF AbsReq
<1> QED  BY <1>1, <1>2 DEF Abs!InCall

LEMMA AbsInitially == ClientInit => Abs!Init
<1> SUFFICES ASSUME ClientInit PROVE Abs!Init
  OBVIOUS
<1>1. \A x \in Path : Current(x) = Abs!Absent
  BY DEF ClientInit, StoreInit, Current, Missing, Abs!Absent
<1>2. ASSUME NEW p \in Proc PROVE AbsReq[p] = Abs!Ended("idle", {})
  <2>1. call[p].stage = "idle" /\ call[p].path = NoPath /\ call[p].doc = {}
    BY DEF ClientInit, StoreInit, Idle, Ended
  <2> QED  BY <2>1, AbsOf, AbsStages DEF Abs!Ended
<1>3. AbsReq = [p \in Proc |-> AbsReq[p]]
  BY DEF AbsReq
<1>4. AbsReq = [p \in Proc |-> Abs!Ended("idle", {})]
  BY <1>2, <1>3
<1> QED  BY <1>1, <1>4 DEF Abs!Init

LEMMA StartWriteAbs ==
  ASSUME SerialClients, OneWriter, NEW p \in Proc, ClientWrite(p)
  PROVE  Abs!Next
<1>1. PICK x \in Path, d \in Docs : p \in Writer[x] /\ OpenTmp(p, x, d)
  BY DEF ClientWrite
<1>2. StoreInv /\ overlapped = {} /\ call \in [Proc -> Call]
  BY DEF SerialClients, ClientInv, StoreInv, StoreTypeOK
<1>3. \A y \in Path : Current(y)' = Current(y)
  BY <1>1, <1>2, OpenTmpFile
<1>4. /\ \A q \in Proc \ {p} : call'[q] = call[q]
      /\ call'[p].stage = "writing" /\ call'[p].path = x /\ call'[p].doc = d
  BY <1>1, <1>2 DEF OpenTmp
<1>5. ASSUME NEW q \in Proc \ {p}, call[q].stage = "reading"
      PROVE  content'[call[q].fd] = content[call[q].fd]
  <2>1. call[q].fd \in Inode /\ call[q].path \in Path
    BY <1>2, <1>5 DEF StoreInv, CallShape
  <2>2. Seen(call[q].path, call[q].fd)
    BY <1>5 DEF Seen
  <2> QED  BY <1>1, <1>2, <2>1, <2>2, OpenTmpKeepsSeen
<1>6. AbsReq' = [AbsReq EXCEPT ![p] = AbsReq'[p]]
  BY <1>2, <1>4, <1>5, OthersAbs
<1>7. AbsReq'[p] = [stage |-> "write", path |-> x, doc |-> d]
  <2>1. AbsReq'[p] = [stage |-> AbsStage(call'[p].stage), path |-> call'[p].path,
                      doc |-> IF call'[p].stage = "reading"
                              THEN content'[call'[p].fd].doc ELSE call'[p].doc]
    BY DEF AbsReq
  <2> QED  BY <1>4, <2>1, AbsStages DEF WriteStage
<1>8. ~Abs!InCall(p)
  BY <1>1, AbsReady DEF OpenTmp
<1>9. d \in Abs!Doc
  BY ClientAssumption DEF Abs!Doc
<1>10. Abs!StartWrite(p, x, d)
  BY <1>3, <1>6, <1>7, <1>8 DEF Abs!StartWrite
<1> QED  BY <1>9, <1>10 DEF Abs!Next

LEMMA StartReadAbs ==
  ASSUME SerialClients, NEW p \in Proc, ClientRead(p)
  PROVE  Abs!Next
<1>1. PICK x \in Path : CheckExists(p, x)
  BY DEF ClientRead
<1>2. /\ StoreInv /\ call \in [Proc -> Call] /\ file \in [Path -> Inode \cup {NoInode}]
      /\ PathInv(x)
  BY DEF SerialClients, ClientInv, StoreInv, StoreTypeOK
<1>3. UNCHANGED <<file, content>> /\ \A q \in Proc \ {p} : call'[q] = call[q]
  BY <1>1, <1>2 DEF CheckExists
<1>4. \A y \in Path : Current(y)' = Current(y)
  BY <1>3 DEF Current, Missing
<1>5. AbsReq' = [AbsReq EXCEPT ![p] = AbsReq'[p]]
  BY <1>2, <1>3, OthersAbs
<1>6. AbsReq'[p] = [stage |-> AbsStage(call'[p].stage), path |-> call'[p].path,
                    doc |-> IF call'[p].stage = "reading"
                            THEN content'[call'[p].fd].doc ELSE call'[p].doc]
  BY DEF AbsReq
<1>7. ~Abs!InCall(p)
  BY <1>1, AbsReady DEF CheckExists
<1>8. CASE file[x] = NoInode
  <2>1. call'[p] = Ended("ok", {})
    BY <1>1, <1>2, <1>8 DEF CheckExists
  <2>2. AbsReq'[p] = Abs!Ended("ok", {})
    BY <1>6, <2>1, AbsStages DEF Ended, Abs!Ended
  <2>3. Current(x) = Abs!Absent
    BY <1>8 DEF Current, Missing, Abs!Absent
  <2>4. Abs!ReadMissing(p, x)
    BY <1>4, <1>5, <1>7, <2>2, <2>3 DEF Abs!ReadMissing
  <2> QED  BY <2>4 DEF Abs!Next
<1>9. CASE file[x] # NoInode
  <2>1. call'[p].stage = "found" /\ call'[p].path = x /\ call'[p].doc = {}
    BY <1>1, <1>2, <1>9 DEF CheckExists
  <2>2. AbsReq'[p] = [stage |-> "read", path |-> x, doc |-> {}]
    BY <1>6, <2>1, AbsStages
  <2>3. Current(x) # Abs!Absent
    BY <1>2, <1>9 DEF PathInv, Current, Abs!Absent
  <2>4. Abs!StartRead(p, x)
    BY <1>4, <1>5, <1>7, <2>2, <2>3 DEF Abs!StartRead
  <2> QED  BY <2>4 DEF Abs!Next
<1> QED  BY <1>8, <1>9

LEMMA KillAbs ==
  ASSUME SerialClients, NEW p \in Proc, ClientKilled(p)
  PROVE  Abs!Next
<1>1. StoreInv /\ call \in [Proc -> Call]
  BY DEF SerialClients, ClientInv, StoreInv, StoreTypeOK
<1>2. /\ UNCHANGED <<file, content>> /\ call'[p] = Ended("idle", {})
      /\ \A q \in Proc \ {p} : call'[q] = call[q]
  BY <1>1 DEF ClientKilled, KillCall, Idle
<1>3. \A y \in Path : Current(y)' = Current(y)
  BY <1>2 DEF Current, Missing
<1>4. AbsReq' = [AbsReq EXCEPT ![p] = AbsReq'[p]]
  BY <1>1, <1>2, OthersAbs
<1>5. AbsReq'[p] = Abs!Ended("idle", {})
  <2>1. AbsReq'[p] = [stage |-> AbsStage(call'[p].stage), path |-> call'[p].path,
                      doc |-> IF call'[p].stage = "reading"
                              THEN content'[call'[p].fd].doc ELSE call'[p].doc]
    BY DEF AbsReq
  <2> QED  BY <1>2, <2>1, AbsStages DEF Ended, Abs!Ended
<1>6. Abs!Die(p)
  BY <1>3, <1>4, <1>5 DEF Abs!Die
<1> QED  BY <1>6 DEF Abs!Next

LEMMA ProceedAbs ==
  ASSUME SerialClients, NEW p \in Proc, ClientStep(p)
  PROVE  [Abs!Next]_(Abs!vars)
<1>0. CallStep(p) /\ StoreInv /\ overlapped = {}
  BY DEF ClientStep, SerialClients, ClientInv
<1>1. /\ call \in [Proc -> Call] /\ file \in [Path -> Inode \cup {NoInode}]
      /\ tmp \in [Path -> Inode \cup {NoInode}]
      /\ CallShape /\ \A x \in Path : PathInv(x)
  BY <1>0 DEF StoreInv, StoreTypeOK
<1>2. CallAfter(p)
  BY <1>0, CallAfterStep
<1>3. PICK x \in Path : x = call[p].path
  BY <1>0, <1>1 DEF CallStep, CloseTmp, DumpFails, ReplaceFile, OpenFile, LoadFile,
                    CallShape, WriteStage
<1>4. \A y \in Path : \/ Current(y)' = Current(y)
                      \/ /\ y = x /\ call[p].stage = "closed"
                         /\ Current(y)' = Text(call[p].doc) /\ call'[p] = Ended("ok", {})
  BY <1>0, <1>3, CallStepFile
<1>5. ASSUME NEW q \in Proc, call[q].stage = "reading"
      PROVE  content'[call[q].fd] = content[call[q].fd]
  <2>1. call[q].fd \in Inode /\ call[q].path \in Path
    BY <1>1, <1>5 DEF CallShape
  <2>2. Seen(call[q].path, call[q].fd)
    BY <1>5 DEF Seen
  <2> QED  BY <1>0, <2>1, <2>2, CallStepKeepsSeen
<1>6. AbsReq' = [AbsReq EXCEPT ![p] = AbsReq'[p]]
  BY <1>0, <1>2, <1>5, OthersAbs DEF CallAfter
<1>7. AbsReq[p] = [stage |-> AbsStage(call[p].stage), path |-> call[p].path,
                   doc |-> IF call[p].stage = "reading"
                           THEN content[call[p].fd].doc ELSE call[p].doc]
  BY DEF AbsReq
<1>8. AbsReq'[p] = [stage |-> AbsStage(call'[p].stage), path |-> call'[p].path,
                    doc |-> IF call'[p].stage = "reading"
                            THEN content'[call'[p].fd].doc ELSE call'[p].doc]
  BY DEF AbsReq
<1>9. CASE CloseTmp(p)
  <2>1. /\ call[p].stage = "writing" /\ call'[p].stage = "closed"
        /\ call'[p].path = call[p].path /\ call'[p].doc = call[p].doc
    <3>1. call[p].stage = "writing" /\ ~OpenFile(p) /\ ~LoadFile(p) /\ ~ReplaceFile(p)
      BY <1>9 DEF CloseTmp, OpenFile, LoadFile, ReplaceFile
    <3> QED  BY <1>2, <1>9, <3>1 DEF CallAfter
  <2>2. AbsReq'[p] = AbsReq[p]
    BY <1>7, <1>8, <2>1, AbsStages DEF WriteStage
  <2>3. AbsReq' = AbsReq
    BY <1>6, <2>2 DEF AbsReq
  <2>4. \A y \in Path : Current(y)' = Current(y)
    BY <1>4, <2>1
  <2> QED  BY <2>3, <2>4 DEF Abs!vars
<1>10. CASE DumpFails(p) /\ ~CloseTmp(p)
  <2>1. call[p].stage = "writing" /\ call'[p] = Ended("error", {})
    BY <1>1, <1>10 DEF DumpFails
  <2>2. \A y \in Path : Current(y)' = Current(y)
    BY <1>4, <2>1
  <2>3. AbsReq[p].stage = "write" /\ AbsReq'[p] = Abs!Ended("failed", {})
    BY <1>7, <1>8, <2>1, AbsStages DEF Ended, Abs!Ended, WriteStage
  <2>4. Abs!Fail(p)
    BY <1>6, <2>2, <2>3 DEF Abs!Fail
  <2> QED  BY <2>4 DEF Abs!Next
<1>11. CASE ReplaceFile(p)
  <2>1. p \in WritersOf(x) /\ call[p].stage = "closed" /\ call[p].fd \in Inode
    BY <1>1, <1>3, <1>11 DEF ReplaceFile, WritersOf, WriteStage, CallShape
  <2>2. tmp[x] # NoInode /\ content[tmp[x]] = Text(call[p].doc)
    BY <1>1, <2>1, StoreAssumption DEF PathInv
  <2>3. /\ file' = [file EXCEPT ![x] = tmp[x]] /\ content' = content
        /\ call'[p] = Ended("ok", {})
    BY <1>1, <1>3, <1>11, <2>2 DEF ReplaceFile
  <2>4. /\ Current(x)' = Text(call[p].doc)
        /\ \A y \in Path \ {x} : Current(y)' = Current(y)
    BY <1>1, <2>2, <2>3 DEF Current, Missing
  <2>5. /\ AbsReq[p].stage = "write" /\ AbsReq[p].path = x /\ AbsReq[p].doc = call[p].doc
        /\ AbsReq'[p] = Abs!Ended("ok", {})
    BY <1>3, <1>7, <1>8, <2>1, <2>3, AbsStages DEF Ended, Abs!Ended, WriteStage
  <2>6. Text(call[p].doc) = Abs!Present(AbsReq[p].doc)
    BY <2>5 DEF Text, Abs!Present
  <2>7. [y \in Path |-> Current(y)'] =
          [[y \in Path |-> Current(y)] EXCEPT ![AbsReq[p].path] = Abs!Present(AbsReq[p].doc)]
    BY <2>4, <2>5, <2>6
  <2>8. Abs!Install(p)
    BY <1>6, <2>5, <2>7 DEF Abs!Install
  <2> QED  BY <2>8 DEF Abs!Next
<1>12. CASE OpenFile(p)
  <2>1. file[x] # NoInode /\ call[p].stage = "found"
    BY <1>3, <1>12 DEF OpenFile, SerialClients
  <2>2. /\ call'[p].stage = "reading" /\ call'[p].path = x /\ call'[p].fd = file[x]
        /\ UNCHANGED <<file, content>>
    <3>1. call'[p] # Ended("error", {})
      BY <1>1, <1>3, <1>12, <2>1 DEF OpenFile, Ended, Call
    <3> QED  BY <1>2, <1>3, <1>12, <2>1, <3>1 DEF CallAfter, OpenFile, CloseTmp, LoadFile, ReplaceFile
  <2>3. \A y \in Path : Current(y)' = Current(y)
    BY <2>2 DEF Current, Missing
  <2>4. AbsReq[p].stage = "read" /\ AbsReq[p].path = x /\ AbsReq[p].doc = call[p].doc
    BY <1>3, <1>7, <2>1, AbsStages
  <2>5. AbsReq'[p] = [stage |-> "snapped", path |-> x, doc |-> Current(x).doc]
    BY <1>8, <2>1, <2>2, AbsStages DEF Current
  <2>6. [y \in Path |-> Current(y)][AbsReq[p].path].doc = Current(x).doc
    BY <2>4
  <2>7. Abs!Snapshot(p)
    BY <1>6, <2>3, <2>4, <2>5, <2>6 DEF Abs!Snapshot
  <2> QED  BY <2>7 DEF Abs!Next
<1>13. CASE LoadFile(p)
  <2>1. call[p].stage = "reading" /\ UNCHANGED <<file, content>>
    BY <1>13 DEF LoadFile
  <2>2. content[call[p].fd].kind = "doc"
    BY <1>1, <1>3, <2>1 DEF PathInv
  <2>3. call'[p] = Ended("ok", content[call[p].fd].doc)
    BY <1>1, <1>13, <2>2 DEF LoadFile
  <2>4. \A y \in Path : Current(y)' = Current(y)
    BY <2>1 DEF Current, Missing
  <2>5. AbsReq[p].stage = "snapped" /\ AbsReq[p].doc = content[call[p].fd].doc
    BY <1>7, <2>1, AbsStages
  <2>6. AbsReq'[p] = Abs!Ended("ok", AbsReq[p].doc)
    BY <1>8, <2>3, <2>5, AbsStages DEF Ended, Abs!Ended
  <2>7. Abs!Return(p)
    BY <1>6, <2>4, <2>5, <2>6 DEF Abs!Return
  <2> QED  BY <2>7 DEF Abs!Next
<1> QED  BY <1>0, <1>9, <1>10, <1>11, <1>12, <1>13 DEF CallStep

(* With one writer for each path, whatever fails or is killed, write_json  *)
(* installs its document in one step or not at all, and read_json returns  *)
(* the document that was installed at one moment of the call, and never    *)
(* fails.                                                                  *)
THEOREM StoreIsAtomic ==
  ASSUME OneWriter
  PROVE  ClientSpec => ImplementsAtomicStore
<1>1. SerialClients /\ [ClientNext]_clientVars => [Abs!Next]_(Abs!vars)
  <2> SUFFICES ASSUME SerialClients, [ClientNext]_clientVars PROVE [Abs!Next]_(Abs!vars)
    OBVIOUS
  <2>1. ASSUME NEW p \in Proc, ClientWrite(p) PROVE [Abs!Next]_(Abs!vars)
    BY <2>1, StartWriteAbs
  <2>2. ASSUME NEW p \in Proc, ClientRead(p) PROVE [Abs!Next]_(Abs!vars)
    BY <2>2, StartReadAbs
  <2>3. ASSUME NEW p \in Proc, ClientKilled(p) PROVE [Abs!Next]_(Abs!vars)
    BY <2>3, KillAbs
  <2>4. CASE UNCHANGED clientVars
    BY <2>4 DEF clientVars, Abs!vars, AbsReq, Current, Missing
  <2> QED  BY <2>1, <2>2, <2>3, <2>4, ProceedAbs DEF ClientNext
<1>2. SerialClients /\ [ClientNext]_clientVars => SerialClients'
  BY SerialNext
<1> QED  BY <1>1, <1>2, SerialInit, AbsInitially, PTL
         DEF ClientSpec, ImplementsAtomicStore, Abs!Spec
=============================================================================
