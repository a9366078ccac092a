------------------------- MODULE KernelRegistryProofs -------------------------
(***************************************************************************)
(* What register promises of the index and of the artifact files, for any  *)
(* number of processes, kernels, requests, crashes and builds.             *)
(***************************************************************************)
EXTENDS KernelRegistry, StoreProofs

(* The entries that may be listed: their artifact has been copied.         *)
CopiedEntries == {e \in Listed : e.file.key = e.key /\ stored[e.file] # None}

(* The documents that index.json, its temporary file and the calls at it   *)
(* may hold.                                                               *)
Indexes == {d \in SUBSET CopiedEntries : \A e, f \in d : e.key = f.key => e = f}

(* What a register command has in each step.                               *)
CommandInv(p) ==
  LET r == reg[p]
  IN  /\ r.step \in Active => r.artifact \in Artifact /\ r.name \in Name
      /\ r.step \in Active \ {"hash"} => KeyOf(r) \in Key /\ r.hash \in Bits
      /\ r.step = "hash" => r.source \in Source \cup {None}
      /\ r.step = "copying" => r.taken \in Bits
      /\ r.step \in {"copying", "copied", "index", "publish"} => stored[FileOf(r)] # None
      /\ ~InIndex(p) => Ready(p)
      /\ r.step = "index" => call[p].doc \in Indexes /\ call[p].stage \notin WriteStage
      /\ r.step = "publish" => call[p].stage \in WriteStage \cup {"ok", "error"}
      /\ call[p].path \in {Index, NoPath}

RegisterInv ==
  /\ StoreInv
  /\ TypeOK
  /\ PathDocs(Index, Indexes)
  /\ \A p \in Proc : CommandInv(p)

(* While no two commands have updated the index at once: the one that is   *)
(* updating it has read what is in it now, and is about to write all of    *)
(* its keys and its own.                                                   *)
UpdateInv(p) ==
  LET r == reg[p]
  IN  /\ r.step = "index" =>
           /\ call[p].stage = "reading" => call[p].fd = file[Index]
           /\ call[p].stage = "ok" => call[p].doc = Indexed
      /\ r.step = "publish" /\ call[p].stage \in WriteStage =>
           KeysIn(Indexed) \cup {KeyOf(r)} \subseteq KeysIn(call[p].doc)
      /\ r.step = "publish" /\ call[p].stage = "ok" => KeyOf(r) \in KeysIn(Indexed)

SerialInv ==
  ~raced =>
    /\ Index \notin overlapped
    /\ \A p, q \in Proc : Updating(p) /\ Updating(q) => p = q
    /\ \A p \in Proc : UpdateInv(p)
    /\ acked \subseteq KeysIn(Indexed)

(* What a command knows of its file: once it has opened it, no one who is  *)
(* through may rely on it; alone in it, it finds there what it has put.    *)
FileInv(p) ==
  LET r == reg[p]
      f == FileOf(r)
  IN  /\ HasOpened(p, f) => f \notin sound
      /\ p \in alone =>
           /\ HasOpened(p, f) /\ Others(p) = {}
           /\ r.step = "copying" => r.taken = r.hash /\ stored[f] = Empty
           /\ r.step # "copying" => stored[f] = r.hash

(* A command that was alone in the file f has listed it.                   *)
Registered(f) ==
  \/ f \in sound
  \/ \E p \in alone : /\ reg[p].step = "publish" /\ call[p].stage = "ok"
                       /\ FileOf(reg[p]) = f

(* The document that p is about to publish: the index without the key of p,*)
(* and the entry of p.                                                     *)
NewDoc(p) ==
  \A e \in call[p].doc :
    e = EntryOf(reg[p]) \/ (e \in Indexed /\ e.key # KeyOf(reg[p]))

Writing(p) == reg[p].step = "publish" /\ call[p].stage \in WriteStage

IntactInv ==
  /\ alone \subseteq Proc /\ \A p \in Proc : FileInv(p)
  /\ ~raced => /\ \A e \in Indexed : Registered(e.file) => stored[e.file] = e.hash
               /\ \A p \in Proc : Writing(p) => NewDoc(p)

-----------------------------------------------------------------------------
LEMMA IndexesGrow ==
  ASSUME \A f \in File : stored[f] # None => stored'[f] # None
  PROVE  Indexes \subseteq Indexes'
<1>1. CopiedEntries \subseteq CopiedEntries'
  BY DEF CopiedEntries, Listed
<1> QED  BY <1>1 DEF Indexes

LEMMA NoIndex == {} \in Indexes
  BY DEF Indexes

(* The process p takes a step that is no step of the store.                *)
LEMMA CommandStep ==
  ASSUME NEW p \in Proc, RegisterInv, UNCHANGED storeVars,
         \A q \in Proc \ {p} : reg'[q] = reg[q],
         \A f \in File : stored[f] # None => stored'[f] # None,
         TypeOK', CommandInv(p)'
  PROVE  RegisterInv'
<1>1. StoreInv'
  BY IdleStepInv DEF RegisterInv
<1>2. Indexes \subseteq Indexes'
  BY IndexesGrow
<1>3. PathDocs(Index, Indexes)'
  BY <1>2 DEF RegisterInv, PathDocs, Holds, storeVars
<1>4. ASSUME NEW q \in Proc, q # p PROVE CommandInv(q)'
  <2>1. CommandInv(q) /\ reg'[q] = reg[q] /\ call'[q] = call[q]
    BY <1>4 DEF RegisterInv, storeVars
  <2>2. reg[q].step \in Active \ {"hash"} => FileOf(reg[q]) \in File
    BY <2>1 DEF CommandInv, FileOf, File, Active
  <2>3. reg[q].step \in {"copying", "copied", "index", "publish"} => stored'[FileOf(reg[q])] # None
    BY <2>1, <2>2 DEF CommandInv, Active
  <2> QED  BY <1>2, <2>1, <2>3 DEF CommandInv, InIndex, Ready
<1> QED  BY <1>1, <1>3, <1>4 DEF RegisterInv

LEMMA StartInv ==
  ASSUME NEW p \in Proc, NEW r \in Requests, RegisterInv, Start(p, r)
  PROVE  RegisterInv'
<1> USE RegistryAssumption
<1>1. /\ reg \in [Proc -> Command] /\ CommandInv(p) /\ TypeOK
      /\ r.name \in Name /\ r.artifact \in Artifact /\ r.source \in Source \cup {None}
  BY DEF RegisterInv, TypeOK
<1>2. \/ reg'[p] = NoCommand("refused")
      \/ reg'[p] = [step |-> "hash", name |-> r.name, artifact |-> r.artifact,
                    source |-> r.source, hash |-> None, taken |-> None]
  BY <1>1 DEF Start, Refuse
<1>3. reg'[p] \in Command
  BY <1>1, <1>2 DEF NoCommand, Command, Over, Active
<1>4. reg' \in [Proc -> Command] /\ \A q \in Proc \ {p} : reg'[q] = reg[q]
  BY <1>1, <1>3 DEF Start, Refuse
<1>5. CommandInv(p)'
  BY <1>1, <1>2 DEF CommandInv, NoCommand, Start, Over, Active, InIndex, Ready, KeyOf, storeVars
<1>6. TypeOK'
  <2>1. StoreTypeOK'
    BY <1>1 DEF TypeOK, StoreTypeOK, Start, storeVars
  <2>2. commands' \in 0..MaxCommands
    BY <1>1 DEF TypeOK, Start
  <2>3. \A q \in Proc : reg'[q].step \in Active \ {"hash"} => KeyOf(reg'[q]) \in Key
    BY <1>1, <1>2, <1>4 DEF TypeOK, NoCommand, Active
  <2> QED  BY <1>1, <1>4, <2>1, <2>2, <2>3 DEF TypeOK, Start
<1> QED  BY <1>4, <1>5, <1>6, CommandStep DEF Start

(* A command that ends, by itself or with an error.                        *)
LEMMA EndInv ==
  ASSUME NEW p \in Proc, RegisterInv, UNCHANGED storeVars, Ready(p),
         \E s \in Over : reg' = [reg EXCEPT ![p] = NoCommand(s)],
         UNCHANGED <<built, raced, counters>>, acked' \in SUBSET Key,
         alone' \in SUBSET Proc, sound' \in SUBSET File,
         stored' \in [File -> Bits \cup {None, Empty, Damaged}],
         \A f \in File : stored[f] # None => stored'[f] # None
  PROVE  RegisterInv'
<1>1. reg \in [Proc -> Command] /\ CommandInv(p) /\ TypeOK
  BY DEF RegisterInv, TypeOK
<1>2. PICK s \in Over : reg' = [reg EXCEPT ![p] = NoCommand(s)]
  OBVIOUS
<1>3. NoCommand(s) \in Command
  BY DEF NoCommand, Command
<1>4. /\ reg' \in [Proc -> Command] /\ reg'[p] = NoCommand(s)
      /\ \A q \in Proc \ {p} : reg'[q] = reg[q]
  BY <1>1, <1>2, <1>3
<1>5. s \notin Active
  BY DEF Over, Active
<1>6. CommandInv(p)'
  BY <1>1, <1>4, <1>5 DEF CommandInv, NoCommand, Active, InIndex, Ready, storeVars
<1>7. StoreTypeOK'
  BY <1>1 DEF TypeOK, StoreTypeOK, storeVars
<1>8. \A q \in Proc : reg'[q].step \in Active \ {"hash"} => KeyOf(reg'[q]) \in Key
  BY <1>1, <1>4, <1>5 DEF TypeOK, NoCommand
<1>9. TypeOK'
  BY <1>1, <1>4, <1>7, <1>8 DEF TypeOK, counters
<1> QED  BY <1>4, <1>6, <1>9, CommandStep

LEMMA HashFileInv ==
  ASSUME NEW p \in Proc, RegisterInv, HashFile(p)
  PROVE  RegisterInv'
<1> USE RegistryAssumption
<1>1. /\ reg \in [Proc -> Command] /\ CommandInv(p) /\ TypeOK /\ reg[p] \in Command
      /\ reg[p].step = "hash" /\ Ready(p)
      /\ UNCHANGED <<storeVars, built, stored, raced, acked, alone, sound, counters>>
  BY DEF RegisterInv, TypeOK, HashFile, CommandInv, InIndex
<1>2. PICK bits, next :
        /\ bits = built[reg[p].artifact]
        /\ next = [reg[p] EXCEPT !.step = "copy", !.hash = bits, !.source = SourceOr(@, bits)]
        /\ \/ reg' = [reg EXCEPT ![p] = NoCommand("refused")]
           \/ bits # None /\ reg' = [reg EXCEPT ![p] = next]
  BY DEF HashFile, Refuse
<1>3. CASE reg' = [reg EXCEPT ![p] = NoCommand("refused")]
  BY <1>1, <1>3, EndInv DEF Over, TypeOK, counters
<1>4. CASE bits # None /\ reg' = [reg EXCEPT ![p] = next]
  <2>1. bits \in Bits /\ reg[p].name \in Name /\ reg[p].artifact \in Artifact
    BY <1>1, <1>2, <1>4 DEF TypeOK, CommandInv, Active
  <2>2. SourceOr(reg[p].source, bits) \in Source \cup Bits
    BY <1>1, <2>1 DEF SourceOr, Command
  <2>3. next = [step |-> "copy", name |-> reg[p].name, artifact |-> reg[p].artifact,
                source |-> SourceOr(reg[p].source, bits), hash |-> bits,
                taken |-> reg[p].taken]
    BY <1>1, <1>2 DEF Command
  <2>4. next \in Command
    BY <1>1, <2>1, <2>2, <2>3 DEF Command, Active
  <2>5. /\ \A q \in Proc \ {p} : reg'[q] = reg[q]
        /\ DOMAIN reg' = Proc /\ reg' = [q \in Proc |-> reg'[q]] /\ reg'[p] = next
    BY <1>1, <1>4
  <2>6. reg' \in [Proc -> Command]
    BY <1>1, <2>4, <2>5
  <2>7. KeyOf(reg'[p]) \in Key
    BY <2>1, <2>2, <2>3, <2>5 DEF KeyOf, Key
  <2>8. CommandInv(p)'
    BY <1>1, <2>1, <2>3, <2>5, <2>7 DEF CommandInv, InIndex, Ready, storeVars
  <2>9. StoreTypeOK'
    BY <1>1 DEF TypeOK, StoreTypeOK, storeVars
  <2>10. TypeOK'
    BY <1>1, <2>5, <2>6, <2>7, <2>9 DEF TypeOK, counters
  <2> QED  BY <1>1, <2>5, <2>8, <2>10, CommandStep
<1> QED  BY <1>2, <1>3, <1>4

LEMMA FileOfCommand ==
  ASSUME NEW p \in Proc, RegisterInv, reg[p].step \in Active \ {"hash"}
  PROVE  FileOf(reg[p]) \in File /\ FileOf(reg[p]).key = KeyOf(reg[p])
<1>1. KeyOf(reg[p]) \in Key /\ reg[p].artifact \in Artifact
  BY DEF RegisterInv, CommandInv, Active
<1> QED  BY <1>1 DEF FileOf, File

LEMMA OpenCopyInv ==
  ASSUME NEW p \in Proc, RegisterInv, OpenCopy(p)
  PROVE  RegisterInv'
<1> USE RegistryAssumption
<1>1. /\ reg \in [Proc -> Command] /\ CommandInv(p) /\ TypeOK /\ reg[p] \in Command
      /\ reg[p].step = "copy" /\ Ready(p)
  BY DEF RegisterInv, TypeOK, OpenCopy, CommandInv, InIndex
<1>2. CASE built[reg[p].artifact] = None
  <2>1. /\ reg' = [reg EXCEPT ![p] = NoCommand("refused")]
        /\ UNCHANGED <<storeVars, built, stored, raced, acked, alone, sound, counters>>
    BY <1>2 DEF OpenCopy, Refuse
  <2> QED  BY <1>1, <2>1, EndInv DEF Over, TypeOK, counters
<1>3. CASE built[reg[p].artifact] # None
  <2> DEFINE bits == built[reg[p].artifact]
  <2>1. /\ bits \in Bits /\ reg[p].name \in Name /\ reg[p].artifact \in Artifact
        /\ KeyOf(reg[p]) \in Key /\ reg[p].hash \in Bits
    BY <1>1, <1>3 DEF TypeOK, CommandInv, Active
  <2>2. FileOf(reg[p]) \in File
    BY <1>1, FileOfCommand DEF Active
  <2>3. reg'[p] = [step |-> "copying", name |-> reg[p].name, artifact |-> reg[p].artifact,
                   source |-> reg[p].source, hash |-> reg[p].hash, taken |-> bits]
    BY <1>1, <1>3 DEF OpenCopy, Command
  <2>4. reg'[p] \in Command
    BY <1>1, <2>1, <2>3 DEF Command, Active
  <2>5. /\ \A q \in Proc \ {p} : reg'[q] = reg[q]
        /\ DOMAIN reg' = Proc /\ reg' = [q \in Proc |-> reg'[q]]
    BY <1>1, <1>3 DEF OpenCopy
  <2>6. reg' \in [Proc -> Command]
    BY <1>1, <2>4, <2>5
  <2>7. KeyOf(reg'[p]) = KeyOf(reg[p]) /\ FileOf(reg'[p]) = FileOf(reg[p])
    BY <2>3 DEF KeyOf, FileOf
  <2>8. /\ UNCHANGED <<storeVars, built, raced, acked, counters>>
        /\ stored' = [stored EXCEPT ![FileOf(reg[p])] = Empty]
        /\ alone' \subseteq alone \cup {p} /\ sound' \subseteq sound
    BY <1>3 DEF OpenCopy
  <2>9. /\ stored' \in [File -> Bits \cup {None, Empty, Damaged}]
        /\ \A f \in File : stored[f] # None => stored'[f] # None
        /\ stored'[FileOf(reg[p])] # None
    BY <1>1, <2>2, <2>8 DEF TypeOK
  <2>10. CommandInv(p)'
    BY <1>1, <2>1, <2>3, <2>7, <2>8, <2>9 DEF CommandInv, InIndex, Ready, storeVars
  <2>11. StoreTypeOK'
    BY <1>1, <2>8 DEF TypeOK, StoreTypeOK, storeVars
  <2>12. TypeOK'
    BY <1>1, <2>1, <2>5, <2>6, <2>7, <2>8, <2>9, <2>11 DEF TypeOK, counters
  <2> QED  BY <2>5, <2>8, <2>9, <2>10, <2>12, CommandStep
<1> QED  BY <1>2, <1>3

LEMMA FinishCopyInv ==
  ASSUME NEW p \in Proc, RegisterInv, FinishCopy(p)
  PROVE  RegisterInv'
<1> USE RegistryAssumption
<1>1. /\ reg \in [Proc -> Command] /\ CommandInv(p) /\ TypeOK /\ reg[p] \in Command
      /\ reg[p].step = "copying" /\ Ready(p)
  BY DEF RegisterInv, TypeOK, FinishCopy, CommandInv, InIndex
<1>2. /\ reg[p].taken \in Bits /\ reg[p].name \in Name /\ reg[p].artifact \in Artifact
      /\ KeyOf(reg[p]) \in Key /\ reg[p].hash \in Bits /\ FileOf(reg[p]) \in File
  BY <1>1, FileOfCommand DEF CommandInv, Active
<1>3. PICK b \in {reg[p].taken, Damaged} : stored' = [stored EXCEPT ![FileOf(reg[p])] = b]
  BY DEF FinishCopy
<1>4. reg'[p] = [step |-> "copied", name |-> reg[p].name, artifact |-> reg[p].artifact,
                 source |-> reg[p].source, hash |-> reg[p].hash, taken |-> reg[p].taken]
  BY <1>1 DEF FinishCopy, Command
<1>5. reg'[p] \in Command
  BY <1>1, <1>4 DEF Command, Active
<1>6. /\ \A q \in Proc \ {p} : reg'[q] = reg[q]
      /\ UNCHANGED <<storeVars, built, raced, acked, alone, sound, counters>>
  BY <1>1, <1>5 DEF FinishCopy
<1>7. KeyOf(reg'[p]) = KeyOf(reg[p]) /\ FileOf(reg'[p]) = FileOf(reg[p])
  BY <1>4 DEF KeyOf, FileOf
<1>8. /\ stored' \in [File -> Bits \cup {None, Empty, Damaged}]
      /\ \A f \in File : stored[f] # None => stored'[f] # None
      /\ stored'[FileOf(reg[p])] # None
  BY <1>1, <1>2, <1>3 DEF TypeOK
<1>9. CommandInv(p)'
  BY <1>1, <1>2, <1>4, <1>6, <1>7, <1>8 DEF CommandInv, InIndex, Ready, storeVars
<1>10. StoreTypeOK'
  BY <1>1, <1>6 DEF TypeOK, StoreTypeOK, storeVars
<1>11. reg' \in [Proc -> Command]
  BY <1>1, <1>5, <1>6 DEF FinishCopy
<1>12. TypeOK'
  BY <1>1, <1>2, <1>6, <1>7, <1>8, <1>10, <1>11 DEF TypeOK, counters
<1> QED  BY <1>6, <1>8, <1>9, <1>12, CommandStep

(* What a copy that breaks off leaves is still a file.                     *)
LEMMA BreakOffKeeps ==
  ASSUME NEW p \in Proc, RegisterInv, BreakOff(p)
  PROVE  /\ stored' \in [File -> Bits \cup {None, Empty, Damaged}]
         /\ \A f \in File : stored[f] # None => stored'[f] # None
<1> USE RegistryAssumption
<1>1. CommandInv(p) /\ stored \in [File -> Bits \cup {None, Empty, Damaged}]
  BY DEF RegisterInv, TypeOK
<1>2. CASE reg[p].step = "copying"
  <2>1. FileOf(reg[p]) \in File /\ stored[FileOf(reg[p])] # None /\ reg[p].taken \in Bits
    BY <1>1, <1>2, FileOfCommand DEF CommandInv, Active
  <2>2. PICK b \in {stored[FileOf(reg[p])], Damaged, reg[p].taken} :
          stored' = [stored EXCEPT ![FileOf(reg[p])] = b]
    BY <1>2 DEF BreakOff
  <2>3. b \in Bits \cup {None, Empty, Damaged} /\ b # None
    BY <1>1, <2>1, <2>2
  <2> QED  BY <1>1, <2>1, <2>2, <2>3
<1>3. CASE reg[p].step # "copying"
  BY <1>1, <1>3 DEF BreakOff
<1> QED  BY <1>2, <1>3

LEMMA CopyFailsInv ==
  ASSUME NEW p \in Proc, RegisterInv, CopyFails(p)
  PROVE  RegisterInv'
<1>1. /\ reg[p].step \in {"hash", "copy", "copying"} /\ BreakOff(p)
      /\ reg' = [reg EXCEPT ![p] = NoCommand("refused")]
      /\ UNCHANGED <<storeVars, built, raced, acked, sound, counters>>
      /\ alone' = alone \ {p}
  BY DEF CopyFails, Refuse
<1>2. /\ acked' \in SUBSET Key /\ alone' \in SUBSET Proc /\ sound' \in SUBSET File
      /\ Ready(p)
  BY <1>1 DEF RegisterInv, CommandInv, TypeOK, InIndex
<1>3. /\ stored' \in [File -> Bits \cup {None, Empty, Damaged}]
      /\ \A f \in File : stored[f] # None => stored'[f] # None
  BY <1>1, BreakOffKeeps
<1> QED  BY <1>1, <1>2, <1>3, EndInv DEF Over

LEMMA FinishInv ==
  ASSUME NEW p \in Proc, RegisterInv, Finish(p)
  PROVE  RegisterInv'
<1>1. /\ reg[p].step = "publish" /\ call[p].stage = "ok"
      /\ reg' = [reg EXCEPT ![p] = NoCommand("done")]
      /\ acked' = acked \cup {KeyOf(reg[p])}
      /\ sound' \subseteq sound \cup {FileOf(reg[p])} /\ alone' = alone \ {p}
      /\ UNCHANGED <<storeVars, built, stored, raced, counters>>
  BY DEF Finish, Published
<1>2. /\ KeyOf(reg[p]) \in Key /\ FileOf(reg[p]) \in File /\ Ready(p)
      /\ stored \in [File -> Bits \cup {None, Empty, Damaged}]
      /\ acked \in SUBSET Key /\ alone \in SUBSET Proc /\ sound \in SUBSET File
  BY <1>1, FileOfCommand
     DEF RegisterInv, CommandInv, TypeOK, Active, Ready, EndStage
<1>3. /\ acked' \in SUBSET Key /\ alone' \in SUBSET Proc /\ sound' \in SUBSET File
  BY <1>1, <1>2
<1> QED  BY <1>1, <1>2, <1>3, EndInv DEF Over

LEMMA FailInv ==
  ASSUME NEW p \in Proc, RegisterInv, Fail(p)
  PROVE  RegisterInv'
<1>1. /\ call[p].stage = "error" /\ reg' = [reg EXCEPT ![p] = NoCommand("refused")]
      /\ UNCHANGED <<storeVars, built, stored, raced, acked, sound, counters>>
      /\ alone' = alone \ {p}
  BY DEF Fail, Refuse
<1>2. /\ acked' \in SUBSET Key /\ alone' \in SUBSET Proc /\ sound' \in SUBSET File
      /\ Ready(p) /\ stored \in [File -> Bits \cup {None, Empty, Damaged}]
  BY <1>1 DEF RegisterInv, TypeOK, Ready, EndStage
<1> QED  BY <1>1, <1>2, EndInv DEF Over

LEMMA BuildInv ==
  ASSUME NEW a \in Artifact, RegisterInv, Build(a)
  PROVE  RegisterInv'
<1>1. /\ UNCHANGED <<storeVars, stored, reg, raced, acked, alone, sound, commands, kills>>
      /\ UNCHANGED <<file, tmp, content, call, overlapped>>
  BY DEF Build, storeVars
<1>2. StoreInv'
  BY <1>1, IdleStepInv DEF RegisterInv
<1>3. TypeOK'
  <2>1. StoreTypeOK'
    BY <1>1 DEF RegisterInv, TypeOK, StoreTypeOK
  <2>2. built' \in [Artifact -> Bits \cup {None}] /\ builds' \in 0..MaxBuilds
    BY RegistryAssumption DEF Build, RegisterInv, TypeOK
  <2> QED  BY <1>1, <2>1, <2>2 DEF RegisterInv, TypeOK
<1>4. Indexes' = Indexes
  BY <1>1 DEF Indexes, CopiedEntries
<1>5. PathDocs(Index, Indexes)'
  BY <1>1, <1>4 DEF RegisterInv, PathDocs, Holds
<1>6. \A p \in Proc : CommandInv(p)'
  BY <1>1, <1>4 DEF RegisterInv, CommandInv, InIndex, Ready
<1> QED  BY <1>2, <1>3, <1>5, <1>6 DEF RegisterInv

-----------------------------------------------------------------------------
(* The process p takes a step of the store, in a command that goes on.     *)
LEMMA IndexStep ==
  ASSUME NEW p \in Proc, RegisterInv, StoreInv',
         UNCHANGED <<built, stored, acked, alone, sound, counters>>, raced' \in BOOLEAN,
         \A q \in Proc \ {p} : reg'[q] = reg[q] /\ call'[q] = call[q],
         reg' \in [Proc -> Command],
         reg'[p].step \in Active \ {"hash"} => KeyOf(reg'[p]) \in Key,
         NEW D, D = Indexes, PathDocs(Index, D)', CommandInv(p)'
  PROVE  RegisterInv'
<1>1. Indexes' = Indexes
  BY DEF Indexes, CopiedEntries
<1>2. PathDocs(Index, Indexes)'
  BY <1>1 DEF PathDocs
<1>3. TypeOK'
  BY DEF RegisterInv, StoreInv, TypeOK, counters
<1>4. ASSUME NEW q \in Proc \ {p} PROVE CommandInv(q)'
  BY <1>1 DEF RegisterInv, CommandInv, InIndex, Ready
<1> QED  BY <1>2, <1>3, <1>4 DEF RegisterInv

LEMMA ReadIndexInv ==
  ASSUME NEW p \in Proc, RegisterInv, ReadIndex(p)
  PROVE  RegisterInv'
<1> USE RegistryAssumption
<1>1. /\ reg \in [Proc -> Command] /\ CommandInv(p) /\ TypeOK /\ reg[p] \in Command
      /\ call \in [Proc -> Call]
      /\ reg[p].step = "copied" /\ StoreInv /\ PathDocs(Index, Indexes)
  BY DEF RegisterInv, TypeOK, ReadIndex, Copied, StoreTypeOK
<1>2. CheckExists(p, Index) /\ reg' = [reg EXCEPT ![p].step = "index"]
  BY DEF ReadIndex
<1>3. PICK D : D = Indexes
  OBVIOUS
<1>4. PathDocs(Index, D)' /\ call'[p].doc \in D
  BY <1>1, <1>2, <1>3, NoIndex, CheckExistsDocs
<1>5. reg'[p] = [step |-> "index", name |-> reg[p].name, artifact |-> reg[p].artifact,
                 source |-> reg[p].source, hash |-> reg[p].hash, taken |-> reg[p].taken]
  BY <1>1, <1>2 DEF Command
<1>6. reg'[p] \in Command
  BY <1>1, <1>5 DEF Command, Active
<1>7. reg' \in [Proc -> Command]
  BY <1>1, <1>2, <1>6
<1>8. \A q \in Proc \ {p} : reg'[q] = reg[q] /\ call'[q] = call[q]
  BY <1>1, <1>2 DEF CheckExists
<1>9. KeyOf(reg'[p]) = KeyOf(reg[p]) /\ FileOf(reg'[p]) = FileOf(reg[p])
  BY <1>5 DEF KeyOf, FileOf
<1>10. Indexes' = Indexes /\ UNCHANGED <<built, stored, acked, alone, sound, counters>>
  BY DEF ReadIndex, Indexes, CopiedEntries
<1>11. call'[p].path \in {Index, NoPath} /\ call'[p].stage \notin WriteStage
  BY <1>1, <1>2 DEF CheckExists, Ended, WriteStage
<1>12. CommandInv(p)'
  BY <1>1, <1>3, <1>4, <1>5, <1>9, <1>10, <1>11 DEF CommandInv, InIndex, Active
<1>13. raced' \in BOOLEAN
  BY <1>1 DEF ReadIndex, TypeOK
<1>14. KeyOf(reg'[p]) \in Key
  BY <1>1, <1>9 DEF CommandInv, Active
<1>15. StoreInv'
  BY <1>1, <1>2, CheckExistsInv
<1> QED  BY <1>3, <1>4, <1>7, <1>8, <1>10, <1>12, <1>13, <1>14, <1>15, IndexStep

(* The index that a command writes lists its own kernel, once, and what    *)
(* the index it has read lists besides.                                    *)
LEMMA NewIndex ==
  ASSUME NEW p \in Proc, RegisterInv, reg[p].step = "index"
  PROVE  LET d == Kept(call[p].doc, reg[p]) \cup {EntryOf(reg[p])}
         IN  /\ d \in Indexes /\ d \in Doc
             /\ KeysIn(d) = KeysIn(call[p].doc) \cup {KeyOf(reg[p])}
<1>1. /\ call[p].doc \in Indexes /\ KeyOf(reg[p]) \in Key /\ reg[p].hash \in Bits
      /\ stored[FileOf(reg[p])] # None
      /\ FileOf(reg[p]) \in File /\ FileOf(reg[p]).key = KeyOf(reg[p])
  BY FileOfCommand DEF RegisterInv, CommandInv, Active
<1>2. EntryOf(reg[p]) \in CopiedEntries /\ EntryOf(reg[p]).key = KeyOf(reg[p])
  BY <1>1 DEF EntryOf, CopiedEntries, Listed
<1>3. /\ Kept(call[p].doc, reg[p]) \subseteq call[p].doc
      /\ \A e \in Kept(call[p].doc, reg[p]) : e.key # KeyOf(reg[p])
      /\ \A e \in call[p].doc : e.key # KeyOf(reg[p]) => e \in Kept(call[p].doc, reg[p])
  BY DEF Kept
<1> DEFINE d == Kept(call[p].doc, reg[p]) \cup {EntryOf(reg[p])}
<1>4. d \in Indexes
  BY <1>1, <1>2, <1>3 DEF Indexes
<1>5. d \in Doc
  BY <1>4, RegistryAssumption DEF Doc, Indexes, CopiedEntries
<1>6. KeysIn(d) = KeysIn(call[p].doc) \cup {KeyOf(reg[p])}
  BY <1>2, <1>3 DEF KeysIn
<1> QED  BY <1>4, <1>5, <1>6

LEMMA WriteIndexInv ==
  ASSUME NEW p \in Proc, RegisterInv, WriteIndex(p)
  PROVE  RegisterInv'
<1> USE RegistryAssumption
<1>1. /\ reg \in [Proc -> Command] /\ CommandInv(p) /\ TypeOK /\ reg[p] \in Command
      /\ call \in [Proc -> Call]
      /\ reg[p].step = "index" /\ StoreInv /\ PathDocs(Index, Indexes)
  BY DEF RegisterInv, TypeOK, WriteIndex, StoreTypeOK
<1>2. PICK d : /\ d = Kept(call[p].doc, reg[p]) \cup {EntryOf(reg[p])}
               /\ OpenTmp(p, Index, d)
  BY DEF WriteIndex
<1>3. PICK D : D = Indexes
  OBVIOUS
<1>4. d \in D /\ d \in Doc
  BY <1>1, <1>2, <1>3, NewIndex
<1>5. PathDocs(Index, D)'
  BY <1>1, <1>2, <1>3, <1>4, NoIndex, OpenTmpDocs
<1>6. StoreInv'
  BY <1>1, <1>2, <1>4, OpenTmpInv
<1>7. reg'[p] = [step |-> "publish", name |-> reg[p].name, artifact |-> reg[p].artifact,
                 source |-> reg[p].source, hash |-> reg[p].hash, taken |-> reg[p].taken]
  BY <1>1 DEF WriteIndex, Command
<1>8. reg'[p] \in Command
  BY <1>1, <1>7 DEF Command, Active
<1>9. reg' \in [Proc -> Command]
  BY <1>1, <1>8 DEF WriteIndex
<1>10. /\ \A q \in Proc \ {p} : reg'[q] = reg[q] /\ call'[q] = call[q]
       /\ call'[p].stage = "writing" /\ call'[p].path = Index
  BY <1>1, <1>2 DEF WriteIndex, OpenTmp
<1>11. KeyOf(reg'[p]) = KeyOf(reg[p]) /\ FileOf(reg'[p]) = FileOf(reg[p])
  BY <1>7 DEF KeyOf, FileOf
<1>12. UNCHANGED <<built, stored, acked, alone, sound, counters>> /\ raced' \in BOOLEAN
  BY <1>1 DEF WriteIndex, TypeOK
<1>13. CommandInv(p)'
  BY <1>1, <1>7, <1>10, <1>11, <1>12 DEF CommandInv, InIndex, Active, WriteStage
<1>14. KeyOf(reg'[p]) \in Key
  BY <1>1, <1>11 DEF CommandInv, Active
<1> QED  BY <1>3, <1>5, <1>6, <1>9, <1>10, <1>12, <1>13, <1>14, IndexStep

LEMMA StoreStepInv ==
  ASSUME NEW p \in Proc, RegisterInv, StoreStep(p)
  PROVE  RegisterInv'
<1> USE RegistryAssumption
<1>1. /\ reg \in [Proc -> Command] /\ CommandInv(p) /\ TypeOK
      /\ InIndex(p) /\ CallStep(p) /\ StoreInv /\ PathDocs(Index, Indexes)
      /\ UNCHANGED <<built, stored, reg, raced, acked, alone, sound, counters>>
  BY DEF RegisterInv, TypeOK, StoreStep
<1>2. PICK D : D = Indexes
  OBVIOUS
<1>3. CallAfter(p) /\ StoreInv'
  BY <1>1, CallAfterStep, CallStepInv
<1>4. call[p].path = Index
  <2>1. call[p].stage \in ReadStage \cup WriteStage
    BY <1>1 DEF CallStep, CloseTmp, DumpFails, ReplaceFile, OpenFile, LoadFile, ReadStage, WriteStage
  <2>2. call[p].path \in Path
    BY <1>1, <2>1 DEF StoreInv, CallShape, ReadStage
  <2> QED  BY <1>1, <2>2, StoreAssumption DEF CommandInv
<1>5. PathDocs(Index, D)' /\ call'[p].doc \in D
  BY <1>1, <1>2, <1>4, NoIndex, CallStepDocs
<1>6. call'[p].path \in {Index, NoPath}
  BY <1>3, <1>4 DEF CallAfter, Ended
<1>7. reg[p].step = "index" => call'[p].stage \notin WriteStage
  BY <1>1, <1>3 DEF CallAfter, Ended, CommandInv, CloseTmp, WriteStage
<1>8. reg[p].step = "publish" => call'[p].stage \in WriteStage \cup {"ok", "error"}
  BY <1>1, <1>3 DEF CallAfter, Ended, CommandInv, OpenFile, WriteStage
<1>9. Indexes' = Indexes
  BY <1>1 DEF Indexes, CopiedEntries
<1>10. CommandInv(p)'
  BY <1>1, <1>2, <1>5, <1>6, <1>7, <1>8, <1>9 DEF CommandInv, InIndex
<1>11. reg'[p].step \in Active \ {"hash"} => KeyOf(reg'[p]) \in Key
  BY <1>1 DEF CommandInv
<1>12. \A q \in Proc \ {p} : reg'[q] = reg[q] /\ call'[q] = call[q]
  BY <1>1, <1>3 DEF CallAfter
<1>13. raced' \in BOOLEAN
  BY <1>1 DEF TypeOK
<1> QED  BY <1>1, <1>2, <1>3, <1>5, <1>10, <1>11, <1>12, <1>13, IndexStep

LEMMA KillInv ==
  ASSUME NEW p \in Proc, RegisterInv, Kill(p)
  PROVE  RegisterInv'
<1> USE RegistryAssumption
<1>1. /\ reg \in [Proc -> Command] /\ CommandInv(p) /\ TypeOK /\ call \in [Proc -> Call]
      /\ KillCall(p) /\ StoreInv /\ PathDocs(Index, Indexes)
      /\ reg' = [reg EXCEPT ![p] = NoCommand("idle")]
  BY DEF RegisterInv, TypeOK, Kill, StoreTypeOK
<1>2. StoreInv'
  BY <1>1, KillCallInv
<1>3. NoCommand("idle") \in Command
  BY DEF NoCommand, Command, Over
<1>4. /\ reg' \in [Proc -> Command] /\ reg'[p] = NoCommand("idle")
      /\ \A q \in Proc \ {p} : reg'[q] = reg[q]
  BY <1>1, <1>3
<1>5. call'[p] = Idle /\ \A q \in Proc \ {p} : call'[q] = call[q]
  BY <1>1 DEF KillCall
<1>6. /\ stored' \in [File -> Bits \cup {None, Empty, Damaged}]
      /\ \A f \in File : stored[f] # None => stored'[f] # None
  BY BreakOffKeeps DEF Kill
<1>7. Indexes \subseteq Indexes'
  BY <1>6, IndexesGrow
<1>8. PICK D : D = Indexes
  OBVIOUS
<1>9. PathDocs(Index, D)'
  BY <1>1, <1>8, NoIndex, KillCallDocs
<1>10. PathDocs(Index, Indexes)'
  BY <1>7, <1>8, <1>9 DEF PathDocs
<1>11. CommandInv(p)'
  BY <1>4, <1>5 DEF CommandInv, NoCommand, Active, InIndex, Ready, Idle, Ended, EndStage
<1>12. ASSUME NEW q \in Proc, q # p PROVE CommandInv(q)'
  <2>1. CommandInv(q) /\ reg'[q] = reg[q] /\ call'[q] = call[q]
    BY <1>4, <1>5, <1>12 DEF RegisterInv
  <2>2. reg[q].step \in {"copying", "copied", "index", "publish"} =>
          FileOf(reg[q]) \in File /\ stored[FileOf(reg[q])] # None
    BY <2>1, FileOfCommand DEF CommandInv, Active
  <2> QED  BY <1>6, <1>7, <2>1, <2>2 DEF CommandInv, InIndex, Ready
<1>13. TypeOK'
  <2>1. \A q \in Proc : reg'[q].step \in Active \ {"hash"} => KeyOf(reg'[q]) \in Key
    BY <1>1, <1>4 DEF TypeOK, NoCommand, Active
  <2>2. /\ kills' \in 0..MaxKills /\ UNCHANGED <<built, raced, acked, sound, commands, builds>>
        /\ alone' \in SUBSET Proc
    BY <1>1 DEF TypeOK, Kill
  <2> QED  BY <1>1, <1>2, <1>4, <1>6, <2>1, <2>2 DEF StoreInv, TypeOK
<1> QED  BY <1>2, <1>10, <1>11, <1>12, <1>13 DEF RegisterInv

-----------------------------------------------------------------------------
LEMMA RegisterInitInv == Init => RegisterInv
<1> SUFFICES ASSUME Init PROVE RegisterInv
  OBVIOUS
<1> USE RegistryAssumption DEF Init
<1>1. StoreInv
  BY StoreInitInv
<1>2. \A p \in Proc : reg[p] = NoCommand("idle") /\ call[p] = Idle
  BY DEF StoreInit
<1>3. NoCommand("idle") \in Command
  BY DEF NoCommand, Command, Over
<1>4. TypeOK
  <2>1. \A p \in Proc : reg[p].step \notin Active
    BY <1>2 DEF NoCommand, Active
  <2>2. reg \in [Proc -> Command] /\ stored \in [File -> Bits \cup {None, Empty, Damaged}]
    BY <1>3
  <2>3. built \in [Artifact -> Bits \cup {None}]
    OBVIOUS
  <2>4. raced \in BOOLEAN /\ acked \in SUBSET Key /\ alone \in SUBSET Proc /\ sound \in SUBSET File
    OBVIOUS
  <2>5. commands \in 0..MaxCommands /\ kills \in 0..MaxKills /\ builds \in 0..MaxBuilds
    OBVIOUS
  <2>6. StoreTypeOK
    BY <1>1 DEF StoreInv
  <2> QED  BY <2>1, <2>2, <2>3, <2>4, <2>5, <2>6 DEF TypeOK
<1>5. PathDocs(Index, Indexes)
  BY NoIndex, InitDocs
<1>6. \A p \in Proc : CommandInv(p)
  BY <1>2 DEF CommandInv, NoCommand, Active, InIndex, Ready, Idle, Ended, EndStage
<1> QED  BY <1>1, <1>4, <1>5, <1>6 DEF RegisterInv

LEMMA RegisterStepInv == RegisterInv /\ [Next]_vars => RegisterInv'
<1> SUFFICES ASSUME RegisterInv, [Next]_vars PROVE RegisterInv'
  OBVIOUS
<1>1. ASSUME NEW p \in Proc, NEW r \in Requests, Start(p, r) PROVE RegisterInv'
  BY <1>1, StartInv
<1>2. ASSUME NEW p \in Proc, Register(p) PROVE RegisterInv'
  BY <1>2, HashFileInv, OpenCopyInv, FinishCopyInv, CopyFailsInv, ReadIndexInv, WriteIndexInv,
     StoreStepInv, FinishInv, FailInv DEF Register
<1>3. ASSUME NEW p \in Proc, Kill(p) PROVE RegisterInv'
  BY <1>3, KillInv
<1>4. ASSUME NEW a \in Artifact, Build(a) PROVE RegisterInv'
  BY <1>4, BuildInv
<1>5. CASE UNCHANGED vars
  <2>1. StoreInv'
    BY <1>5, IdleStepInv DEF vars, storeVars, RegisterInv
  <2>2. TypeOK' /\ Indexes' = Indexes
    BY <1>5 DEF vars, RegisterInv, TypeOK, StoreTypeOK, Indexes, CopiedEntries
  <2>3. PathDocs(Index, Indexes)'
    BY <1>5, <2>2 DEF vars, RegisterInv, PathDocs, Holds
  <2>4. \A p \in Proc : CommandInv(p)'
    BY <1>5, <2>2 DEF vars, RegisterInv, CommandInv, InIndex, Ready
  <2> QED  BY <2>1, <2>2, <2>3, <2>4 DEF RegisterInv
<1> QED  BY <1>1, <1>2, <1>3, <1>4, <1>5 DEF Next

(* The inductive invariant of the registry: every command is where it was  *)
(* last seen, whoever else writes, and every document that was ever made   *)
(* of the index lists copied artifacts only, each key once.                *)
THEOREM RegistryInvariant == Spec => []RegisterInv
  BY RegisterInitInv, RegisterStepInv, PTL DEF Spec

(* The variables of the registry and of its store keep their types, for    *)
(* any number of processes, crashes and builds.                            *)
THEOREM RegistryTypeCorrect == Spec => []TypeOK
<1>1. RegisterInv => TypeOK
  BY DEF RegisterInv
<1> QED  BY <1>1, RegistryInvariant, PTL

LEMMA IndexedDoc == RegisterInv => Indexed \in Indexes
  BY NoIndex, CurrentDoc, RegistryAssumption DEF RegisterInv, Indexed

(* No index that can be read lists one key twice: not after a crash, and   *)
(* not when two commands that update the index at once overwrite each      *)
(* other's files.                                                          *)
THEOREM RegistryKeysUnique == Spec => []KeysUnique
<1>1. RegisterInv => KeysUnique
  BY IndexedDoc DEF Indexes, KeysUnique
<1> QED  BY <1>1, RegistryInvariant, PTL

(* An artifact file that the index lists has been created, under the same  *)
(* circumstances: a kernel is never listed before it is copied.            *)
THEOREM RegistryArtifactsExist == Spec => []ListedArtifactExists
<1>1. RegisterInv => ListedArtifactExists
  BY IndexedDoc DEF Indexes, CopiedEntries, ListedArtifactExists
<1> QED  BY <1>1, RegistryInvariant, PTL

-----------------------------------------------------------------------------
(* While commands take turns in updating the index.                        *)

LEMMA RacedForever ==
  ASSUME [Next]_vars, ~raced'
  PROVE  ~raced
<1>1. CASE UNCHANGED vars
  BY <1>1 DEF vars
<1>2. CASE \E p \in Proc, r \in Requests : Start(p, r)
  BY <1>2 DEF Start
<1>3. CASE \E p \in Proc : Register(p)
  BY <1>3 DEF Register, HashFile, OpenCopy, FinishCopy, CopyFails, ReadIndex, WriteIndex, StoreStep,
              Finish, Fail
<1>4. CASE \E p \in Proc : Kill(p)
  BY <1>4 DEF Kill
<1>5. CASE \E a \in Artifact : Build(a)
  BY <1>5 DEF Build
<1> QED  BY <1>1, <1>2, <1>3, <1>4, <1>5 DEF Next

LEMMA QuietStep ==
  ASSUME UNCHANGED <<file, content>>
  PROVE  Current(Index)' = Current(Index) /\ Indexed' = Indexed
  BY DEF Current, Missing, Indexed

(* The one that is writing the index.                                      *)
LEMMA WriterUpdates ==
  ASSUME RegisterInv, NEW p \in Proc, call[p].stage \in WriteStage
  PROVE  reg[p].step = "publish" /\ Updating(p) /\ call[p].path = Index
<1>1. reg[p].step = "publish"
  BY DEF RegisterInv, CommandInv, InIndex, Ready, WriteStage, EndStage
<1>2. call[p].path \in Path
  BY DEF RegisterInv, StoreInv, CallShape
<1> QED  BY <1>1, <1>2, StoreAssumption DEF RegisterInv, CommandInv, Updating

(* In a step of a process, the index changes only when its command is      *)
(* updating it, and then loses no key.                                     *)
LEMMA IndexAfter ==
  ASSUME RegisterInv, SerialInv, ~raced, NEW p \in Proc,
         \/ UNCHANGED <<file, content>> \/ WriteIndex(p) \/ StoreStep(p)
  PROVE  /\ KeysIn(Indexed) \subseteq KeysIn(Indexed')
         /\ \/ Current(Index)' = Current(Index) /\ file'[Index] = file[Index]
            \/ Updating(p) /\ call[p].stage = "closed" /\ Indexed' = call[p].doc
<1>1. StoreInv /\ Index \in Path \ overlapped
  BY RegistryAssumption DEF RegisterInv, SerialInv
<1>2. CASE UNCHANGED <<file, content>>
  BY <1>2, QuietStep
<1>3. CASE WriteIndex(p)
  <2>1. \E d : OpenTmp(p, Index, d)
    BY <1>3 DEF WriteIndex
  <2> QED  BY <1>1, <2>1, OpenTmpFile, RegistryAssumption DEF Indexed
<1>4. CASE StoreStep(p)
  <2>1. CASE Current(Index)' = Current(Index) /\ file'[Index] = file[Index]
    BY <2>1 DEF Indexed
  <2>2. CASE call[p].stage = "closed" /\ Current(Index)' = Text(call[p].doc)
    <3>1. reg[p].step = "publish" /\ Updating(p)
      BY <2>2, WriterUpdates DEF WriteStage
    <3>2. KeysIn(Indexed) \subseteq KeysIn(call[p].doc)
      BY <2>2, <3>1 DEF SerialInv, UpdateInv, WriteStage
    <3>3. Indexed' = call[p].doc
      BY <2>2 DEF Indexed, Text
    <3> QED  BY <2>2, <3>1, <3>2, <3>3
  <2> QED  BY <1>1, <1>4, <2>1, <2>2, CallStepFile DEF StoreStep
<1> QED  BY <1>2, <1>3, <1>4

(* What SerialInv asks of a step of the process p.                         *)
LEMMA SerialStep ==
  ASSUME NEW p \in Proc, SerialInv, ~raced,
         \A q \in Proc \ {p} : reg'[q] = reg[q] /\ call'[q] = call[q],
         Index \notin overlapped',
         KeysIn(Indexed) \subseteq KeysIn(Indexed'),
         \/ Current(Index)' = Current(Index) /\ file'[Index] = file[Index]
         \/ Updating(p),
         Updating(p)' => Updating(p) \/ \A q \in Proc \ {p} : ~Updating(q),
         UpdateInv(p)',
         acked' \subseteq acked \cup KeysIn(Indexed')
  PROVE  SerialInv'
<1>1. /\ \A q, r \in Proc : Updating(q) /\ Updating(r) => q = r
      /\ \A q \in Proc : UpdateInv(q)
      /\ acked \subseteq KeysIn(Indexed)
  BY DEF SerialInv
<1>2. \A q \in Proc \ {p} : Updating(q)' <=> Updating(q)
  BY DEF Updating
<1>3. \A q, r \in Proc : Updating(q)' /\ Updating(r)' => q = r
  BY <1>1, <1>2
<1>4. ASSUME NEW q \in Proc \ {p} PROVE UpdateInv(q)'
  <2>1. UpdateInv(q) /\ reg'[q] = reg[q] /\ call'[q] = call[q]
    BY <1>1
  <2>2. CASE Updating(q)
    <3>1. Current(Index)' = Current(Index) /\ file'[Index] = file[Index]
      BY <1>1, <2>2
    <3> QED  BY <2>1, <3>1 DEF UpdateInv, Indexed
  <2>3. CASE ~Updating(q)
    BY <2>1, <2>3 DEF UpdateInv, Updating
  <2> QED  BY <2>2, <2>3
<1>5. acked' \subseteq KeysIn(Indexed')
  BY <1>1
<1> QED  BY <1>3, <1>4, <1>5 DEF SerialInv

(* A step of p outside of the store and of the index.                      *)
LEMMA SerialOutside ==
  ASSUME NEW p \in Proc, RegisterInv, SerialInv, UNCHANGED <<storeVars, raced>>,
         \A q \in Proc \ {p} : reg'[q] = reg[q],
         ~InIndex(p)',
         ~raced => acked' \subseteq acked \cup KeysIn(Indexed)
  PROVE  SerialInv'
<1> SUFFICES ASSUME ~raced PROVE SerialInv'
  BY DEF SerialInv
<1>1. UNCHANGED <<file, tmp, content, call, overlapped>>
  BY DEF storeVars
<1>2. Current(Index)' = Current(Index) /\ Indexed' = Indexed
  BY <1>1, QuietStep
<1>3. ~Updating(p)' /\ UpdateInv(p)'
  BY DEF InIndex, Updating, UpdateInv
<1>4. Index \notin overlapped'
  BY <1>1 DEF SerialInv
<1> QED  BY <1>1, <1>2, <1>3, <1>4, SerialStep

LEMMA ReadIndexSerial ==
  ASSUME NEW p \in Proc, RegisterInv, SerialInv, ReadIndex(p)
  PROVE  SerialInv'
<1> SUFFICES ASSUME ~raced' PROVE SerialInv'
  BY DEF SerialInv
<1>1. /\ reg \in [Proc -> Command] /\ call \in [Proc -> Call]
      /\ CheckExists(p, Index) /\ reg' = [reg EXCEPT ![p].step = "index"]
      /\ reg[p].step = "copied"
  BY DEF RegisterInv, TypeOK, StoreTypeOK, ReadIndex, Copied
<1>2. ~raced /\ (\A q \in Proc \ {p} : ~Updating(q)) /\ acked' = acked
  BY DEF ReadIndex
<1>3. UNCHANGED <<file, tmp, content, overlapped>>
  BY <1>1 DEF CheckExists
<1>4. Current(Index)' = Current(Index) /\ Indexed' = Indexed
  BY <1>3, QuietStep
<1>5. \A q \in Proc \ {p} : reg'[q] = reg[q] /\ call'[q] = call[q]
  BY <1>1 DEF CheckExists
<1>6. UpdateInv(p)'
  <2>1. reg'[p].step = "index"
    BY <1>1 DEF Command
  <2>2. \/ file[Index] = NoInode /\ call'[p] = Ended("ok", {})
        \/ call'[p].stage = "found"
    BY <1>1 DEF CheckExists
  <2>3. call'[p].stage = "ok" => call'[p].doc = Indexed
    BY <2>2 DEF Ended, Indexed, Current, Missing
  <2> QED  BY <1>4, <2>1, <2>2, <2>3 DEF UpdateInv, Ended
<1>7. Index \notin overlapped'
  BY <1>2, <1>3 DEF SerialInv
<1> QED  BY <1>2, <1>3, <1>4, <1>5, <1>6, <1>7, SerialStep

LEMMA WriteIndexSerial ==
  ASSUME NEW p \in Proc, RegisterInv, SerialInv, WriteIndex(p)
  PROVE  SerialInv'
<1> SUFFICES ASSUME ~raced PROVE SerialInv'
  BY DEF SerialInv, WriteIndex
<1>1. PICK d : /\ d = Kept(call[p].doc, reg[p]) \cup {EntryOf(reg[p])}
               /\ OpenTmp(p, Index, d)
  BY DEF WriteIndex
<1>2. /\ reg \in [Proc -> Command] /\ call \in [Proc -> Call]
      /\ reg' = [reg EXCEPT ![p].step = "publish"] /\ call[p].stage = "ok"
      /\ reg[p].step = "index" /\ acked' = acked /\ Updating(p)
  BY DEF RegisterInv, TypeOK, StoreTypeOK, WriteIndex, Updating
<1>3. WritersOf(Index) = {}
  <2>1. \A q \in WritersOf(Index) : Updating(q) /\ q \in Proc /\ call[q].stage \in WriteStage
    BY WriterUpdates DEF WritersOf
  <2>2. \A q \in WritersOf(Index) : q = p
    BY <1>2, <2>1 DEF SerialInv
  <2> QED  BY <1>2, <2>1, <2>2 DEF WriteStage
<1>4. Index \notin overlapped'
  BY <1>1, <1>3 DEF OpenTmp, SerialInv
<1>5. Current(Index)' = Current(Index) /\ file' = file
  BY <1>1, OpenTmpFile, RegistryAssumption DEF RegisterInv, SerialInv
<1>6. \A q \in Proc \ {p} : reg'[q] = reg[q] /\ call'[q] = call[q]
  BY <1>1, <1>2 DEF OpenTmp
<1>7. UpdateInv(p)'
  <2>1. call'[p].stage = "writing" /\ call'[p].doc = d
    BY <1>1, <1>2 DEF OpenTmp
  <2>2. reg'[p].step = "publish" /\ KeyOf(reg'[p]) = KeyOf(reg[p])
    BY <1>2 DEF Command, KeyOf
  <2>3. KeysIn(d) = KeysIn(Indexed) \cup {KeyOf(reg[p])}
    <3>1. KeysIn(d) = KeysIn(call[p].doc) \cup {KeyOf(reg[p])}
      BY <1>1, <1>2, NewIndex
    <3>2. call[p].doc = Indexed
      BY <1>2 DEF SerialInv, UpdateInv
    <3> QED  BY <3>1, <3>2
  <2> QED  BY <1>5, <2>1, <2>2, <2>3 DEF UpdateInv, Indexed
<1> QED  BY <1>2, <1>4, <1>5, <1>6, <1>7, SerialStep DEF Indexed

LEMMA StoreStepSerial ==
  ASSUME NEW p \in Proc, RegisterInv, SerialInv, StoreStep(p)
  PROVE  SerialInv'
<1> SUFFICES ASSUME ~raced PROVE SerialInv'
  BY DEF SerialInv, StoreStep
<1>1. /\ CallStep(p) /\ InIndex(p) /\ CommandInv(p)
      /\ UNCHANGED <<built, stored, reg, raced, acked, alone, sound, counters>>
      /\ StoreInv /\ Index \in Path \ overlapped /\ PathInv(Index) /\ UpdateInv(p)
  BY RegistryAssumption DEF StoreStep, RegisterInv, StoreInv, SerialInv
<1>2. CallAfter(p) /\ overlapped' = overlapped
  BY <1>1, CallAfterStep
     DEF CallStep, CloseTmp, DumpFails, ReplaceFile, OpenFile, LoadFile
<1>3. /\ KeysIn(Indexed) \subseteq KeysIn(Indexed')
      /\ \/ Current(Index)' = Current(Index) /\ file'[Index] = file[Index]
         \/ Updating(p) /\ call[p].stage = "closed" /\ Indexed' = call[p].doc
  BY IndexAfter
<1>4. Updating(p)' => Updating(p)
  <2>1. reg[p].step = "publish" /\ call'[p].stage \in WriteStage => call[p].stage \in WriteStage
    BY <1>1, <1>2 DEF CallAfter, CloseTmp, Ended, WriteStage
  <2> QED  BY <1>1, <2>1 DEF Updating
<1>5. call[p].path \in {Index, NoPath} /\ reg'[p] = reg[p]
  BY <1>1 DEF CommandInv
<1>6. ASSUME reg[p].step = "index", call'[p].stage = "reading"
      PROVE  call'[p].fd = file'[Index]
  <2>1. OpenFile(p) /\ call'[p].fd = file[call[p].path] /\ call[p].path = Index
    <3>1. OpenFile(p) /\ call'[p].fd = file[call[p].path]
      BY <1>2, <1>6 DEF CallAfter, Ended
    <3>2. call[p].path \in Path
      BY <1>1, <3>1 DEF StoreInv, CallShape, OpenFile
    <3> QED  BY <1>5, <3>1, <3>2, StoreAssumption
  <2> QED  BY <2>1 DEF OpenFile
<1>7. ASSUME reg[p].step = "index", call'[p].stage = "ok"
      PROVE  call'[p].doc = Indexed'
  <2>1. call[p].stage \notin WriteStage
    BY <1>1, <1>7 DEF CommandInv
  <2>2. LoadFile(p) /\ call'[p] = Ended("ok", content[call[p].fd].doc)
    BY <1>2, <1>7, <2>1 DEF CallAfter, Ended, ReplaceFile, WriteStage
  <2>3. call[p].fd = file[Index] /\ call[p].fd \in Inode
    BY <1>1, <1>7, <2>2 DEF UpdateInv, LoadFile, StoreInv, CallShape
  <2>4. UNCHANGED <<file, content>>
    BY <2>2 DEF LoadFile
  <2> QED  BY <2>2, <2>3, <2>4, StoreAssumption DEF Ended, Indexed, Current
<1>8. ASSUME reg[p].step = "publish", call'[p].stage \in WriteStage
      PROVE  KeysIn(Indexed') \cup {KeyOf(reg[p])} \subseteq KeysIn(call'[p].doc)
  <2>1. CloseTmp(p) /\ call'[p].doc = call[p].doc /\ call[p].stage = "writing"
    BY <1>1, <1>2, <1>8 DEF CallAfter, Ended, WriteStage, CommandInv, OpenFile, CloseTmp
  <2>2. Indexed' = Indexed
    BY <1>3, <2>1 DEF Indexed
  <2> QED  BY <1>1, <1>8, <2>1, <2>2 DEF UpdateInv, WriteStage
<1>9. ASSUME reg[p].step = "publish", call'[p].stage = "ok"
      PROVE  KeyOf(reg[p]) \in KeysIn(Indexed')
  <2>1. ReplaceFile(p)
    BY <1>1, <1>2, <1>9 DEF CallAfter, Ended, CommandInv, LoadFile, WriteStage
  <2>2. call[p].stage = "closed" /\ call[p].path = Index
    BY <2>1, WriterUpdates DEF ReplaceFile, WriteStage
  <2>3. p \in WritersOf(Index)
    BY <2>2 DEF WritersOf, WriteStage
  <2>4. call[p].fd = tmp[Index] /\ content[tmp[Index]] = Text(call[p].doc) /\ call[p].fd \in Inode
    BY <1>1, <2>2, <2>3 DEF PathInv, StoreInv, CallShape, WriteStage
  <2>5. file'[Index] = tmp[Index] /\ content' = content
    BY <1>1, <2>1, <2>2, <2>4, StoreAssumption DEF ReplaceFile, StoreInv, StoreTypeOK
  <2>6. Indexed' = call[p].doc
    BY <2>4, <2>5, StoreAssumption DEF Indexed, Current, Text
  <2> QED  BY <1>1, <1>9, <2>2, <2>6 DEF UpdateInv, WriteStage
<1>10. UpdateInv(p)'
  BY <1>5, <1>6, <1>7, <1>8, <1>9 DEF UpdateInv
<1>11. \A q \in Proc \ {p} : reg'[q] = reg[q] /\ call'[q] = call[q]
  BY <1>1, <1>2 DEF CallAfter
<1> QED  BY <1>1, <1>2, <1>3, <1>4, <1>10, <1>11, SerialStep

LEMMA HashFileStep ==
  ASSUME NEW p \in Proc, RegisterInv, HashFile(p)
  PROVE  /\ UNCHANGED <<storeVars, built, stored, raced, acked, alone, sound, counters>>
         /\ \A q \in Proc \ {p} : reg'[q] = reg[q]
         /\ reg[p].step = "hash" /\ reg'[p].step \in {"refused", "copy"}
<1>1. reg \in [Proc -> Command] /\ reg[p] \in Command
  BY DEF RegisterInv, TypeOK
<1>2. PICK bits, next :
        /\ next = [reg[p] EXCEPT !.step = "copy", !.hash = bits, !.source = SourceOr(@, bits)]
        /\ \/ reg' = [reg EXCEPT ![p] = NoCommand("refused")]
           \/ reg' = [reg EXCEPT ![p] = next]
  BY DEF HashFile, Refuse
<1>3. next.step = "copy"
  BY <1>1, <1>2 DEF Command
<1>4. (\A q \in Proc \ {p} : reg'[q] = reg[q]) /\ reg'[p].step \in {"refused", "copy"}
  <2>1. CASE reg' = [reg EXCEPT ![p] = NoCommand("refused")]
    BY <1>1, <2>1 DEF NoCommand
  <2>2. CASE reg' = [reg EXCEPT ![p] = next]
    <3>1. reg'[p] = next /\ \A q \in Proc \ {p} : reg'[q] = reg[q]
      BY <1>1, <2>2
    <3> QED  BY <1>3, <3>1
  <2> QED  BY <1>2, <2>1, <2>2
<1>5. /\ UNCHANGED <<storeVars, built, stored, raced, acked, alone, sound, counters>>
      /\ reg[p].step = "hash"
  BY DEF HashFile
<1> QED  BY <1>4, <1>5

LEMMA OutsideStep ==
  ASSUME NEW p \in Proc, RegisterInv, SerialInv,
         \/ \E r \in Requests : Start(p, r)
         \/ HashFile(p) \/ OpenCopy(p) \/ FinishCopy(p) \/ CopyFails(p)
         \/ Finish(p) \/ Fail(p)
  PROVE  SerialInv'
<1>1. reg \in [Proc -> Command] /\ reg[p] \in Command
  BY DEF RegisterInv, TypeOK
<1>2. ASSUME NEW r \in Requests, Start(p, r) PROVE SerialInv'
  <2>1. /\ UNCHANGED <<storeVars, raced, acked>> /\ \A q \in Proc \ {p} : reg'[q] = reg[q]
        /\ reg'[p].step \in {"refused", "hash"}
    BY <1>1, <1>2 DEF Start, Refuse, NoCommand
  <2> QED  BY <2>1, SerialOutside DEF InIndex
<1>3. ASSUME HashFile(p) \/ OpenCopy(p) \/ FinishCopy(p) \/ CopyFails(p) \/ Fail(p)
      PROVE  SerialInv'
  <2>1. UNCHANGED <<storeVars, raced, acked>>
    BY <1>3 DEF HashFile, OpenCopy, FinishCopy, CopyFails, Fail
  <2>2. /\ \A q \in Proc \ {p} : reg'[q] = reg[q]
        /\ reg'[p].step \in {"refused", "copy", "copying", "copied"}
    <3>1. CASE HashFile(p)
      BY <3>1, HashFileStep
    <3>2. CASE OpenCopy(p)
      BY <1>1, <3>2 DEF OpenCopy, Refuse, NoCommand, Command
    <3>3. CASE FinishCopy(p)
      BY <1>1, <3>3 DEF FinishCopy, Command
    <3>4. CASE CopyFails(p) \/ Fail(p)
      BY <1>1, <3>4 DEF CopyFails, Fail, Refuse, NoCommand
    <3> QED  BY <1>3, <3>1, <3>2, <3>3, <3>4
  <2> QED  BY <2>1, <2>2, SerialOutside DEF InIndex
<1>4. ASSUME Finish(p) PROVE SerialInv'
  <2>1. /\ UNCHANGED <<storeVars, raced>> /\ \A q \in Proc \ {p} : reg'[q] = reg[q]
        /\ reg'[p].step = "done" /\ acked' = acked \cup {KeyOf(reg[p])}
        /\ reg[p].step = "publish" /\ call[p].stage = "ok"
    BY <1>1, <1>4 DEF Finish, Published, NoCommand
  <2>2. ~raced => KeyOf(reg[p]) \in KeysIn(Indexed)
    BY <2>1 DEF SerialInv, UpdateInv
  <2> QED  BY <2>1, <2>2, SerialOutside DEF InIndex
<1> QED  BY <1>2, <1>3, <1>4

LEMMA KillSerial ==
  ASSUME NEW p \in Proc, RegisterInv, SerialInv, Kill(p)
  PROVE  SerialInv'
<1> SUFFICES ASSUME ~raced PROVE SerialInv'
  BY DEF SerialInv, Kill
<1>1. /\ reg \in [Proc -> Command] /\ call \in [Proc -> Call]
      /\ KillCall(p) /\ reg' = [reg EXCEPT ![p] = NoCommand("idle")] /\ acked' = acked
  BY DEF RegisterInv, TypeOK, StoreTypeOK, Kill
<1>2. UNCHANGED <<file, tmp, content, overlapped>>
  BY <1>1 DEF KillCall
<1>3. Current(Index)' = Current(Index) /\ Indexed' = Indexed
  BY <1>2, QuietStep
<1>4. \A q \in Proc \ {p} : reg'[q] = reg[q] /\ call'[q] = call[q]
  BY <1>1 DEF KillCall
<1>5. ~Updating(p)' /\ UpdateInv(p)'
  BY <1>1 DEF NoCommand, Updating, UpdateInv
<1>6. Index \notin overlapped'
  BY <1>2 DEF SerialInv
<1> QED  BY <1>1, <1>2, <1>3, <1>4, <1>5, <1>6, SerialStep

LEMMA SerialInitInv == Init => SerialInv
<1> SUFFICES ASSUME Init PROVE SerialInv
  OBVIOUS
<1>1. \A p \in Proc : reg[p].step = "idle"
  BY DEF Init, NoCommand
<1> QED  BY <1>1 DEF Init, StoreInit, SerialInv, Updating, UpdateInv

LEMMA SerialStepInv == RegisterInv /\ SerialInv /\ [Next]_vars => SerialInv'
<1> SUFFICES ASSUME RegisterInv, SerialInv, [Next]_vars PROVE SerialInv'
  OBVIOUS
<1>1. ASSUME NEW p \in Proc, NEW r \in Requests, Start(p, r) PROVE SerialInv'
  BY <1>1, OutsideStep
<1>2. ASSUME NEW p \in Proc, Register(p) PROVE SerialInv'
  BY <1>2, OutsideStep, ReadIndexSerial, WriteIndexSerial, StoreStepSerial DEF Register
<1>3. ASSUME NEW p \in Proc, Kill(p) PROVE SerialInv'
  BY <1>3, KillSerial
<1>4. CASE (\E a \in Artifact : Build(a)) \/ UNCHANGED vars
  <2>1. UNCHANGED <<file, tmp, content, call, overlapped, reg, raced, acked>>
    BY <1>4 DEF Build, vars, storeVars
  <2>2. Current(Index)' = Current(Index) /\ Indexed' = Indexed
    BY <2>1, QuietStep
  <2> QED  BY <2>1, <2>2 DEF SerialInv, Updating, UpdateInv
<1> QED  BY <1>1, <1>2, <1>3, <1>4 DEF Next

(* Until two commands update the index at once, the one that does has read *)
(* what is in it, and no acknowledged key is missing from it.              *)
THEOREM RegistrySerial == Spec => []SerialInv
<1>1. Init => RegisterInv /\ SerialInv
  BY RegisterInitInv, SerialInitInv
<1>2. RegisterInv /\ SerialInv /\ [Next]_vars => RegisterInv' /\ SerialInv'
  BY RegisterStepInv, SerialStepInv
<1> QED  BY <1>1, <1>2, PTL DEF Spec

(* A registration that was reported as a success stays listed, whatever    *)
(* dies, fails or is registered after it, as long as no two commands have  *)
(* updated the index at the same time.                                     *)
THEOREM RegistryKeepsAcked == Spec => []AckedStaysListed
<1>1. SerialInv => AckedStaysListed
  BY DEF SerialInv, AckedStaysListed
<1> QED  BY <1>1, RegistrySerial, PTL

(* No registration takes another kernel off the index, as long as no two   *)
(* commands have updated the index at the same time.                       *)
THEOREM RegistryForgetsNothing == Spec => NothingForgotten
<1>1. RegisterInv /\ SerialInv /\ [Next]_vars =>
        [~raced' => KeysIn(Indexed) \subseteq KeysIn(Indexed')]_vars
  <2> SUFFICES ASSUME RegisterInv, SerialInv, [Next]_vars, ~raced'
               PROVE  KeysIn(Indexed) \subseteq KeysIn(Indexed')
    OBVIOUS
  <2>1. ~raced
    BY RacedForever
  <2>2. ASSUME NEW p \in Proc, WriteIndex(p) \/ StoreStep(p)
        PROVE  KeysIn(Indexed) \subseteq KeysIn(Indexed')
    BY <2>1, <2>2, IndexAfter
  <2>3. CASE UNCHANGED <<file, content>>
    BY <2>3, QuietStep
  <2>4. \/ \E p \in Proc : WriteIndex(p) \/ StoreStep(p)
        \/ UNCHANGED <<file, content>>
    <3>1. ASSUME NEW p \in Proc, \E r \in Requests : Start(p, r) PROVE UNCHANGED <<file, content>>
      BY <3>1 DEF Start, storeVars
    <3>2. ASSUME NEW p \in Proc, HashFile(p) \/ OpenCopy(p) \/ FinishCopy(p) \/ CopyFails(p)
          PROVE  UNCHANGED <<file, content>>
      BY <3>2 DEF HashFile, OpenCopy, FinishCopy, CopyFails, storeVars
    <3>3. ASSUME NEW p \in Proc, ReadIndex(p) \/ Finish(p) \/ Fail(p) \/ Kill(p)
          PROVE  UNCHANGED <<file, content>>
      BY <3>3 DEF ReadIndex, CheckExists, Finish, Fail, Kill, KillCall, storeVars
    <3>4. ASSUME NEW x \in Artifact, Build(x) PROVE UNCHANGED <<file, content>>
      BY <3>4 DEF Build, storeVars
    <3>5. UNCHANGED vars => UNCHANGED <<file, content>>
      BY DEF vars
    <3> QED  BY <3>1, <3>2, <3>3, <3>4, <3>5 DEF Next, Register
  <2> QED  BY <2>2, <2>3, <2>4
<1> QED  BY <1>1, RegistryInvariant, RegistrySerial, PTL DEF Spec, NothingForgotten

-----------------------------------------------------------------------------
(* What the files hold.                                                    *)

LEMMA FileOfSame ==
  ASSUME NEW r, NEW s, r.name = s.name, r.source = s.source, r.artifact = s.artifact
  PROVE  KeyOf(r) = KeyOf(s) /\ FileOf(r) = FileOf(s)
  BY DEF KeyOf, FileOf

(* A step of p that changes no file but its own, and makes no other        *)
(* command alone.                                                          *)
LEMMA OtherFiles ==
  ASSUME NEW p \in Proc, IntactInv, NEW F,
         \A q \in Proc \ {p} : reg'[q] = reg[q] /\ call'[q] = call[q],
         \A g \in File \ F : stored'[g] = stored[g],
         \A q \in Proc : HasOpened(q, FileOf(reg[q])) => FileOf(reg[q]) \in File,
         alone' \subseteq alone \cup {p}, sound' \subseteq sound,
         \A q \in alone' \ {p} : FileOf(reg[q]) \notin F,
         \A g : HasOpened(p, g)' => HasOpened(p, g) \/ g \in F
  PROVE  \A q \in Proc \ {p} : FileInv(q)'
<1> SUFFICES ASSUME NEW q \in Proc \ {p} PROVE FileInv(q)'
  OBVIOUS
<1>1. FileInv(q) /\ reg'[q] = reg[q]
  BY DEF IntactInv
<1>2. \A g : HasOpened(q, g)' <=> HasOpened(q, g)
  BY <1>1 DEF HasOpened
<1>3. FileOf(reg'[q]) = FileOf(reg[q])
  BY <1>1
<1>4. CASE q \in alone'
  <2>1. q \in alone /\ FileOf(reg[q]) \notin F
    BY <1>4
  <2>2. /\ HasOpened(q, FileOf(reg[q])) /\ FileOf(reg[q]) \in File
        /\ Others(q) = {}
    BY <1>1, <2>1 DEF FileInv
  <2>3. Others(q)' = {}
    <3> SUFFICES ASSUME NEW s \in Proc \ {q}, HasOpened(s, FileOf(reg[q]))'
                 PROVE  FALSE
      BY <1>3 DEF Others
    <3>1. HasOpened(s, FileOf(reg[q]))
      BY <2>1 DEF HasOpened
    <3> QED  BY <2>2, <3>1 DEF Others
  <2>4. stored'[FileOf(reg[q])] = stored[FileOf(reg[q])]
    BY <2>1, <2>2
  <2> QED  BY <1>1, <1>2, <1>3, <2>1, <2>2, <2>3, <2>4 DEF FileInv
<1>5. CASE q \notin alone'
  BY <1>1, <1>2, <1>3, <1>5 DEF FileInv
<1> QED  BY <1>4, <1>5

(* A step of p that leaves the index alone and publishes nothing.          *)
LEMMA QuietIntact ==
  ASSUME NEW p \in Proc, RegisterInv, IntactInv, UNCHANGED <<file, content>>,
         ~raced' => ~raced, alone' \subseteq Proc,
         \A q \in Proc \ {p} : reg'[q] = reg[q] /\ call'[q] = call[q] /\ FileInv(q)',
         FileInv(p)', ~Writing(p)',
         \A g \in File : Registered(g)' => Registered(g) /\ stored'[g] = stored[g]
  PROVE  IntactInv'
<1>1. Indexed' = Indexed
  BY QuietStep
<1>2. ASSUME ~raced', NEW e \in Indexed, Registered(e.file)'
      PROVE  stored'[e.file] = e.hash
  <2>1. e.file \in File
    BY IndexedDoc DEF Indexes, CopiedEntries, Listed
  <2> QED  BY <1>2, <2>1 DEF IntactInv
<1>3. ASSUME ~raced', NEW q \in Proc, Writing(q)'
      PROVE  NewDoc(q)'
  <2>1. q # p
    BY <1>3
  <2>2. reg'[q] = reg[q] /\ call'[q] = call[q] /\ Writing(q)
    BY <1>3, <2>1 DEF Writing
  <2>3. NewDoc(q)
    BY <1>3, <2>2 DEF IntactInv
  <2> QED  BY <1>1, <2>2, <2>3 DEF NewDoc
<1>4. \A q \in Proc : FileInv(q)'
  OBVIOUS
<1> QED  BY <1>1, <1>2, <1>3, <1>4 DEF IntactInv

LEMMA OpenedFile ==
  ASSUME RegisterInv, NEW q \in Proc, HasOpened(q, FileOf(reg[q]))
  PROVE  FileOf(reg[q]) \in File
  BY FileOfCommand DEF HasOpened, Active

(* A command that has not opened its file is not alone in it, and starts   *)
(* or gets nearer to it.                                                   *)
LEMMA BeforeIntact ==
  ASSUME NEW p \in Proc, RegisterInv, IntactInv, UNCHANGED <<storeVars, stored, raced, alone, sound>>,
         \A q \in Proc \ {p} : reg'[q] = reg[q],
         reg[p].step \in Over \cup {"hash", "copy"},
         reg'[p].step \in Over \cup {"hash", "copy"}
  PROVE  IntactInv'
<1>1. /\ UNCHANGED <<file, tmp, content, call, overlapped>>
      /\ \A g : ~HasOpened(p, g) /\ ~HasOpened(p, g)'
  BY DEF storeVars, HasOpened, Over
<1>2. p \notin alone
  BY <1>1 DEF IntactInv, FileInv
<1>3. \A q \in Proc \ {p} : FileInv(q)'
  <2>1. \A q \in Proc : HasOpened(q, FileOf(reg[q])) => FileOf(reg[q]) \in File
    BY OpenedFile
  <2>2. PICK F : F = {}
    OBVIOUS
  <2> QED  BY <1>1, <1>2, <2>1, <2>2, OtherFiles DEF IntactInv
<1>4. FileInv(p)' /\ ~Writing(p)'
  BY <1>1, <1>2 DEF FileInv, Writing, Over
<1>5. \A g \in File : Registered(g)' => Registered(g) /\ stored'[g] = stored[g]
  BY <1>1, <1>2 DEF Registered, IntactInv
<1> QED  BY <1>1, <1>3, <1>4, <1>5, QuietIntact DEF IntactInv

LEMMA HashFileIntact ==
  ASSUME NEW p \in Proc, RegisterInv, IntactInv, HashFile(p)
  PROVE  IntactInv'
<1>1. /\ UNCHANGED <<storeVars, stored, raced, alone, sound>> /\ reg[p].step = "hash"
      /\ \A q \in Proc \ {p} : reg'[q] = reg[q]
      /\ reg'[p].step \in {"refused", "copy"}
  BY HashFileStep
<1> QED  BY <1>1, BeforeIntact DEF Over

LEMMA OpenCopyIntact ==
  ASSUME NEW p \in Proc, RegisterInv, IntactInv, OpenCopy(p)
  PROVE  IntactInv'
<1>1. /\ reg \in [Proc -> Command] /\ reg[p] \in Command /\ reg[p].step = "copy"
      /\ stored \in [File -> Bits \cup {None, Empty, Damaged}]
      /\ UNCHANGED <<storeVars, raced>>
      /\ FileOf(reg[p]) \in File
  BY FileOfCommand DEF RegisterInv, TypeOK, OpenCopy, Active
<1>2. CASE built[reg[p].artifact] = None
  <2>1. /\ reg' = [reg EXCEPT ![p] = NoCommand("refused")]
        /\ UNCHANGED <<stored, alone, sound>>
    BY <1>2 DEF OpenCopy, Refuse
  <2>2. reg'[p].step = "refused" /\ \A q \in Proc \ {p} : reg'[q] = reg[q]
    BY <1>1, <2>1 DEF NoCommand
  <2> QED  BY <1>1, <2>1, <2>2, BeforeIntact DEF Over
<1>3. CASE built[reg[p].artifact] # None
  <2>1. PICK f, bits :
          /\ f = FileOf(reg[p]) /\ bits = built[reg[p].artifact]
          /\ reg' = [reg EXCEPT ![p].step = "copying", ![p].taken = bits]
          /\ stored' = [stored EXCEPT ![f] = Empty]
          /\ alone' = IF Others(p) = {} /\ bits = reg[p].hash
                      THEN alone \cup {p} ELSE alone \ Others(p)
          /\ sound' = sound \ {f}
    BY <1>3 DEF OpenCopy
  <2>2. /\ reg'[p].step = "copying" /\ reg'[p].taken = bits /\ reg'[p].hash = reg[p].hash
        /\ reg'[p].name = reg[p].name /\ reg'[p].source = reg[p].source
        /\ reg'[p].artifact = reg[p].artifact
        /\ \A q \in Proc \ {p} : reg'[q] = reg[q]
    BY <1>1, <2>1 DEF Command
  <2>3. FileOf(reg'[p]) = f
    BY <2>1, <2>2, FileOfSame
  <2>4. \A g : ~HasOpened(p, g) /\ (HasOpened(p, g)' <=> g = f)
    BY <1>1, <2>2, <2>3 DEF HasOpened
  <2>5. p \notin alone
    BY <2>4 DEF IntactInv, FileInv
  <2>6. \A q \in alone' \ {p} : q \in alone /\ FileOf(reg[q]) # f
    <3> SUFFICES ASSUME NEW q \in alone' \ {p} PROVE q \in alone /\ FileOf(reg[q]) # f
      OBVIOUS
    <3>1. q \in alone /\ q \in Proc /\ q \notin Others(p)
      BY <2>1 DEF IntactInv
    <3>2. HasOpened(q, FileOf(reg[q]))
      BY <3>1 DEF IntactInv, FileInv
    <3> QED  BY <2>1, <3>1, <3>2 DEF Others
  <2>7. \A q \in Proc \ {p} : FileInv(q)'
    <3>1. \A q \in Proc : HasOpened(q, FileOf(reg[q])) => FileOf(reg[q]) \in File
      BY OpenedFile
    <3>2. PICK F : F = {f}
      OBVIOUS
    <3>3. \A g \in File \ F : stored'[g] = stored[g]
      BY <1>1, <2>1, <3>2
    <3>4. alone' \subseteq alone \cup {p} /\ sound' \subseteq sound
      BY <2>1
    <3>5. \A q \in Proc \ {p} : reg'[q] = reg[q] /\ call'[q] = call[q]
      BY <1>1, <2>2 DEF storeVars
    <3> QED  BY <2>4, <2>6, <3>1, <3>2, <3>3, <3>4, <3>5, OtherFiles
  <2>8. FileInv(p)'
    <3>1. stored'[f] = Empty /\ f \notin sound'
      BY <1>1, <2>1
    <3>2. p \in alone' => Others(p) = {} /\ bits = reg[p].hash
      BY <2>1, <2>5
    <3>3. p \in alone' => Others(p)' = {}
      BY <2>1, <2>2, <2>3, <3>2 DEF Others, HasOpened
    <3>4. FileOf(reg[p])' = f /\ HasOpened(p, f)'
      BY <2>3, <2>4
    <3>5. reg'[p].step = "copying"
      BY <2>2
    <3>6. p \in alone' => reg'[p].taken = reg'[p].hash
      BY <2>2, <3>2
    <3> QED  BY <3>1, <3>3, <3>4, <3>5, <3>6 DEF FileInv
  <2>9. \A g \in File : Registered(g)' => Registered(g) /\ stored'[g] = stored[g]
    <3> SUFFICES ASSUME NEW g \in File, Registered(g)'
                 PROVE  Registered(g) /\ g # f
      BY <1>1, <2>1
    <3>1. CASE g \in sound'
      BY <2>1, <3>1 DEF Registered
    <3>2. CASE g \notin sound'
      <4>1. PICK q \in alone' : /\ reg'[q].step = "publish" /\ call'[q].stage = "ok"
                                /\ FileOf(reg'[q]) = g
        BY <3>2 DEF Registered
      <4>2. q # p
        BY <2>2, <4>1
      <4>3. q \in alone /\ FileOf(reg[q]) # f /\ q \in Proc
        BY <2>6, <4>2 DEF IntactInv
      <4>4. reg'[q] = reg[q] /\ call'[q] = call[q]
        BY <1>1, <2>2, <4>2, <4>3 DEF storeVars
      <4> QED  BY <4>1, <4>3, <4>4 DEF Registered
    <3> QED  BY <3>1, <3>2
  <2>10. ~Writing(p)'
    BY <2>2 DEF Writing
  <2>11. /\ UNCHANGED <<file, content>> /\ alone' \subseteq Proc
         /\ \A q \in Proc \ {p} : reg'[q] = reg[q] /\ call'[q] = call[q]
    BY <1>1, <2>1, <2>2 DEF storeVars, IntactInv
  <2> QED  BY <1>1, <2>7, <2>8, <2>9, <2>10, <2>11, QuietIntact
<1> QED  BY <1>2, <1>3

(* A step of p that changes at most what its own file holds, after which   *)
(* the others know of theirs, and of what is registered, what they knew.   *)
LEMMA OwnFile ==
  ASSUME NEW p \in Proc, RegisterInv, IntactInv,
         HasOpened(p, FileOf(reg[p])),
         \A q \in Proc \ {p} : reg'[q] = reg[q] /\ call'[q] = call[q],
         \A g \in File : g # FileOf(reg[p]) => stored'[g] = stored[g],
         alone' \subseteq alone, sound' = sound,
         \A g : HasOpened(p, g)' => HasOpened(p, g)
  PROVE  /\ \A q \in Proc \ {p} : FileInv(q)'
         /\ reg'[p].step # "publish" =>
              \A g \in File : Registered(g)' => Registered(g) /\ stored'[g] = stored[g]
<1>1. ASSUME NEW q \in alone, q # p
      PROVE  FileOf(reg[q]) # FileOf(reg[p]) /\ q \in Proc
  <2>1. q \in Proc /\ Others(q) = {}
    BY DEF IntactInv, FileInv
  <2> QED  BY <1>1, <2>1 DEF Others
<1>2. FileOf(reg[p]) \notin sound
  BY DEF IntactInv, FileInv
<1>3. \A q \in Proc \ {p} : FileInv(q)'
  <2>1. PICK F : F = {FileOf(reg[p])}
    OBVIOUS
  <2>2. \A q \in Proc : HasOpened(q, FileOf(reg[q])) => FileOf(reg[q]) \in File
    BY OpenedFile
  <2>3. \A q \in alone' \ {p} : FileOf(reg[q]) \notin F
    BY <1>1, <2>1
  <2>4. \A g \in File \ F : stored'[g] = stored[g]
    BY <2>1
  <2> QED  BY <2>2, <2>3, <2>4, OtherFiles
<1>4. ASSUME reg'[p].step # "publish", NEW g \in File, Registered(g)'
      PROVE  Registered(g) /\ stored'[g] = stored[g]
  <2>1. CASE g \in sound
    BY <1>2, <2>1 DEF Registered
  <2>2. CASE g \notin sound
    <3>1. PICK q \in alone' : /\ reg'[q].step = "publish" /\ call'[q].stage = "ok"
                              /\ FileOf(reg'[q]) = g
      BY <1>4, <2>2 DEF Registered
    <3>2. q # p /\ q \in alone
      BY <1>4, <3>1
    <3>3. FileOf(reg[q]) # FileOf(reg[p]) /\ reg'[q] = reg[q] /\ call'[q] = call[q]
      BY <1>1, <3>2
    <3> QED  BY <3>1, <3>2, <3>3 DEF Registered
  <2> QED  BY <2>1, <2>2
<1> QED  BY <1>3, <1>4

LEMMA FinishCopyIntact ==
  ASSUME NEW p \in Proc, RegisterInv, IntactInv, FinishCopy(p)
  PROVE  IntactInv'
<1>1. /\ reg \in [Proc -> Command] /\ reg[p] \in Command /\ reg[p].step = "copying"
      /\ stored \in [File -> Bits \cup {None, Empty, Damaged}]
      /\ FileOf(reg[p]) \in File
  BY FileOfCommand DEF RegisterInv, TypeOK, FinishCopy, Active
<1>2. PICK f, bits, mixed, b :
        /\ f = FileOf(reg[p]) /\ bits = reg[p].taken
        /\ mixed = \/ stored[f] \notin {Empty, bits}
                   \/ \E q \in Others(p) : reg[q].step = "copying"
        /\ b \in IF mixed THEN {bits, Damaged} ELSE {bits}
        /\ stored' = [stored EXCEPT ![f] = b]
        /\ reg' = [reg EXCEPT ![p].step = "copied"]
        /\ UNCHANGED <<storeVars, built, raced, acked, alone, sound, counters>>
  BY DEF FinishCopy
<1>3. /\ reg'[p].step = "copied" /\ reg'[p].hash = reg[p].hash
      /\ reg'[p].name = reg[p].name /\ reg'[p].source = reg[p].source
      /\ reg'[p].artifact = reg[p].artifact
      /\ \A q \in Proc \ {p} : reg'[q] = reg[q]
  BY <1>1, <1>2 DEF Command
<1>4. FileOf(reg'[p]) = f
  BY <1>2, <1>3, FileOfSame
<1>5. \A g : HasOpened(p, g)' <=> HasOpened(p, g)
  BY <1>1, <1>2, <1>3, <1>4 DEF HasOpened
<1>6. HasOpened(p, f)
  BY <1>1, <1>2 DEF HasOpened
<1>7. \A q \in Proc \ {p} : reg'[q] = reg[q] /\ call'[q] = call[q]
  BY <1>2, <1>3 DEF storeVars
<1>8. \A g \in File : g # f => stored'[g] = stored[g]
  BY <1>1, <1>2
<1>9. /\ \A q \in Proc \ {p} : FileInv(q)'
      /\ \A g \in File : Registered(g)' => Registered(g) /\ stored'[g] = stored[g]
  BY <1>2, <1>3, <1>5, <1>6, <1>7, <1>8, OwnFile
<1>10. FileInv(p)'
  <2>1. f \notin sound'
    BY <1>2, <1>6 DEF IntactInv, FileInv
  <2>2. ASSUME p \in alone
        PROVE  stored'[f] = reg[p].hash /\ Others(p)' = {}
    <3>1. Others(p) = {} /\ reg[p].taken = reg[p].hash /\ stored[f] = Empty
      BY <1>1, <1>2, <2>2 DEF IntactInv, FileInv
    <3>2. ~mixed
      BY <1>2, <3>1
    <3>3. b = reg[p].hash
      BY <1>2, <3>1, <3>2
    <3>4. stored'[f] = b
      BY <1>1, <1>2
    <3>5. Others(p)' = {}
      BY <1>2, <1>4, <1>7, <3>1 DEF Others, HasOpened
    <3> QED  BY <3>3, <3>4, <3>5
  <2>3. alone' = alone
    BY <1>2
  <2> QED  BY <1>3, <1>4, <1>5, <1>6, <2>1, <2>2, <2>3 DEF FileInv
<1>11. ~Writing(p)'
  BY <1>3 DEF Writing
<1>12. UNCHANGED <<file, content, raced>> /\ alone' \subseteq Proc
  BY <1>2 DEF storeVars, IntactInv
<1> QED  BY <1>7, <1>9, <1>10, <1>11, <1>12, QuietIntact

(* The command of p ends in the middle.                                    *)
LEMMA EndIntact ==
  ASSUME NEW p \in Proc, RegisterInv, IntactInv, BreakOff(p),
         \E s \in Over : reg' = [reg EXCEPT ![p] = NoCommand(s)],
         UNCHANGED <<file, content, raced, sound>>,
         \A q \in Proc \ {p} : call'[q] = call[q],
         alone' = alone \ {p}
  PROVE  IntactInv'
<1>1. /\ reg \in [Proc -> Command]
      /\ stored \in [File -> Bits \cup {None, Empty, Damaged}]
  BY DEF RegisterInv, TypeOK
<1>2. reg'[p].step \in Over /\ \A q \in Proc \ {p} : reg'[q] = reg[q]
  BY <1>1 DEF NoCommand
<1>3. \A g : ~HasOpened(p, g)'
  BY <1>2 DEF HasOpened, Over
<1>4. \A g \in File : g # FileOf(reg[p]) => stored'[g] = stored[g]
  BY <1>1 DEF BreakOff
<1>5. FileInv(p)' /\ ~Writing(p)' /\ alone' \subseteq Proc
  BY <1>2, <1>3 DEF FileInv, Writing, Over, IntactInv
<1>6. CASE HasOpened(p, FileOf(reg[p]))
  <2>1. /\ \A q \in Proc \ {p} : FileInv(q)'
        /\ \A g \in File : Registered(g)' => Registered(g) /\ stored'[g] = stored[g]
    BY <1>2, <1>3, <1>4, <1>6, OwnFile DEF Over
  <2> QED  BY <1>2, <1>5, <2>1, QuietIntact
<1>7. CASE ~HasOpened(p, FileOf(reg[p]))
  <2>1. stored' = stored
    BY <1>7 DEF BreakOff, HasOpened
  <2>2. PICK F : F = {}
    OBVIOUS
  <2>3. \A q \in Proc \ {p} : FileInv(q)'
    <3>1. \A q \in Proc : HasOpened(q, FileOf(reg[q])) => FileOf(reg[q]) \in File
      BY OpenedFile
    <3>2. /\ \A g \in File \ F : stored'[g] = stored[g]
          /\ alone' \subseteq alone \cup {p} /\ sound' \subseteq sound
          /\ \A q \in alone' \ {p} : FileOf(reg[q]) \notin F
          /\ \A g : HasOpened(p, g)' => HasOpened(p, g) \/ g \in F
      BY <1>3, <2>1, <2>2
    <3>3. \A q \in Proc \ {p} : reg'[q] = reg[q] /\ call'[q] = call[q]
      BY <1>2
    <3> QED  BY <3>1, <3>2, <3>3, OtherFiles
  <2>4. \A g \in File : Registered(g)' => Registered(g)
    BY <1>2 DEF Registered, IntactInv
  <2> QED  BY <1>2, <1>5, <2>1, <2>3, <2>4, QuietIntact
<1> QED  BY <1>6, <1>7

LEMMA FinishIntact ==
  ASSUME NEW p \in Proc, RegisterInv, IntactInv, Finish(p)
  PROVE  IntactInv'
<1>1. /\ reg \in [Proc -> Command] /\ reg[p].step = "publish" /\ call[p].stage = "ok"
      /\ reg' = [reg EXCEPT ![p] = NoCommand("done")]
      /\ sound' = (IF p \in alone THEN sound \cup {FileOf(reg[p])} ELSE sound)
      /\ alone' = alone \ {p}
      /\ UNCHANGED <<storeVars, built, stored, raced, counters>>
  BY DEF RegisterInv, TypeOK, Finish, Published
<1>2. /\ reg'[p].step = "done"
      /\ \A q \in Proc \ {p} : reg'[q] = reg[q] /\ call'[q] = call[q]
      /\ UNCHANGED <<file, content>>
  BY <1>1 DEF NoCommand, storeVars
<1>3. /\ \A g : ~HasOpened(p, g)'
      /\ HasOpened(p, FileOf(reg[p]))
  BY <1>1, <1>2 DEF HasOpened
<1>4. FileInv(p)' /\ ~Writing(p)' /\ alone' \subseteq Proc
  BY <1>1, <1>2, <1>3 DEF FileInv, Writing, IntactInv
<1>5. ASSUME NEW q \in Proc \ {p} PROVE FileInv(q)'
  <2>1. FileInv(q) /\ reg'[q] = reg[q] /\ FileOf(reg'[q]) = FileOf(reg[q])
    BY <1>2 DEF IntactInv
  <2>2. \A g : HasOpened(q, g)' <=> HasOpened(q, g)
    BY <2>1 DEF HasOpened
  <2>3. HasOpened(q, FileOf(reg[q])) => FileOf(reg[q]) \notin sound'
    <3>1. CASE p \in alone
      <4>1. Others(p) = {}
        BY <3>1 DEF IntactInv, FileInv
      <4>2. HasOpened(q, FileOf(reg[q])) => FileOf(reg[q]) # FileOf(reg[p])
        BY <4>1 DEF Others
      <4> QED  BY <1>1, <2>1, <4>2 DEF FileInv
    <3>2. CASE p \notin alone
      BY <1>1, <2>1, <3>2 DEF FileInv
    <3> QED  BY <3>1, <3>2
  <2>4. Others(q) = {} => Others(q)' = {}
    BY <1>2, <1>3, <2>1 DEF Others, HasOpened
  <2>5. (q \in alone' <=> q \in alone) /\ stored' = stored
    BY <1>1
  <2> QED  BY <2>1, <2>2, <2>3, <2>4, <2>5 DEF FileInv
<1>6. ASSUME NEW g \in File, Registered(g)'
      PROVE  Registered(g) /\ stored'[g] = stored[g]
  <2>1. stored'[g] = stored[g]
    BY <1>1
  <2>2. CASE g \in sound'
    <3>1. g \in sound \/ (p \in alone /\ g = FileOf(reg[p]))
      BY <1>1, <2>2
    <3> QED  BY <1>1, <2>1, <3>1 DEF Registered
  <2>3. CASE g \notin sound'
    <3>1. PICK q \in alone' : /\ reg'[q].step = "publish" /\ call'[q].stage = "ok"
                              /\ FileOf(reg'[q]) = g
      BY <1>6, <2>3 DEF Registered
    <3>2. q \in alone /\ q \in Proc \ {p}
      BY <1>1, <3>1 DEF IntactInv
    <3>3. reg'[q] = reg[q] /\ call'[q] = call[q]
      BY <1>2, <3>2
    <3> QED  BY <2>1, <3>1, <3>2, <3>3 DEF Registered
  <2> QED  BY <2>2, <2>3
<1> QED  BY <1>1, <1>2, <1>4, <1>5, <1>6, QuietIntact

-----------------------------------------------------------------------------
(* A step of the update of the index: files and their owners stay.         *)
LEMMA UpdateFiles ==
  ASSUME NEW p \in Proc, RegisterInv, IntactInv, UNCHANGED <<stored, alone, sound>>,
         \A q \in Proc \ {p} : reg'[q] = reg[q] /\ call'[q] = call[q],
         reg'[p].name = reg[p].name, reg'[p].source = reg[p].source,
         reg'[p].artifact = reg[p].artifact, reg'[p].hash = reg[p].hash,
         reg[p].step \in {"copied", "index", "publish"},
         reg'[p].step \in {"copied", "index", "publish"}
  PROVE  /\ \A q \in Proc : FileInv(q)'
         /\ FileOf(reg'[p]) = FileOf(reg[p]) /\ KeyOf(reg'[p]) = KeyOf(reg[p])
         /\ \A g : Registered(g)' =>
              \/ Registered(g)
              \/ /\ p \in alone /\ g = FileOf(reg[p])
                 /\ reg'[p].step = "publish" /\ call'[p].stage = "ok"
<1>1. FileOf(reg'[p]) = FileOf(reg[p]) /\ KeyOf(reg'[p]) = KeyOf(reg[p])
  BY FileOfSame
<1>2. \A q \in Proc : FileOf(reg'[q]) = FileOf(reg[q])
  BY <1>1
<1>3. \A q \in Proc : \A g : HasOpened(q, g)' <=> HasOpened(q, g)
  BY <1>2 DEF HasOpened
<1>4. \A q \in Proc : Others(q)' = Others(q)
  BY <1>2, <1>3 DEF Others
<1>5. ASSUME NEW q \in Proc PROVE FileInv(q)'
  <2>1. /\ FileInv(q) /\ reg'[q].hash = reg[q].hash
        /\ reg'[q].step = "copying" => reg'[q] = reg[q]
        /\ reg'[q].step = "copying" <=> reg[q].step = "copying"
    BY DEF IntactInv
  <2> QED  BY <1>2, <1>3, <1>4, <2>1 DEF FileInv
<1>6. ASSUME NEW g, Registered(g)', ~Registered(g)
      PROVE  /\ p \in alone /\ g = FileOf(reg[p])
             /\ reg'[p].step = "publish" /\ call'[p].stage = "ok"
  <2>1. PICK q \in alone : /\ reg'[q].step = "publish" /\ call'[q].stage = "ok"
                           /\ FileOf(reg'[q]) = g
    BY <1>6 DEF Registered
  <2>2. q \in Proc
    BY DEF IntactInv
  <2>3. q = p
    BY <1>6, <2>1, <2>2 DEF Registered
  <2> QED  BY <1>1, <2>1, <2>3
<1> QED  BY <1>1, <1>5, <1>6

LEMMA ReadIndexIntact ==
  ASSUME NEW p \in Proc, RegisterInv, IntactInv, ReadIndex(p)
  PROVE  IntactInv'
<1>1. /\ reg \in [Proc -> Command] /\ reg[p] \in Command /\ call \in [Proc -> Call]
      /\ reg[p].step = "copied" /\ CheckExists(p, Index)
      /\ reg' = [reg EXCEPT ![p].step = "index"]
      /\ UNCHANGED <<stored, alone, sound>> /\ (~raced' => ~raced)
  BY DEF RegisterInv, TypeOK, StoreTypeOK, ReadIndex, Copied
<1>2. /\ UNCHANGED <<file, content>> /\ \A q \in Proc \ {p} : call'[q] = call[q]
  BY <1>1 DEF CheckExists
<1>3. /\ reg'[p].name = reg[p].name /\ reg'[p].source = reg[p].source
      /\ reg'[p].artifact = reg[p].artifact /\ reg'[p].hash = reg[p].hash
      /\ reg'[p].step = "index" /\ \A q \in Proc \ {p} : reg'[q] = reg[q]
  BY <1>1 DEF Command
<1>4. /\ \A q \in Proc : FileInv(q)'
      /\ \A g : Registered(g)' => Registered(g)
  BY <1>1, <1>2, <1>3, UpdateFiles
<1>5. ~Writing(p)' /\ alone' \subseteq Proc
  BY <1>1, <1>3 DEF Writing, IntactInv
<1> QED  BY <1>1, <1>2, <1>3, <1>4, <1>5, QuietIntact

LEMMA WriteIndexIntact ==
  ASSUME NEW p \in Proc, RegisterInv, SerialInv, IntactInv, WriteIndex(p)
  PROVE  IntactInv'
<1>1. PICK d : /\ d = Kept(call[p].doc, reg[p]) \cup {EntryOf(reg[p])}
               /\ OpenTmp(p, Index, d)
  BY DEF WriteIndex
<1>2. /\ reg \in [Proc -> Command] /\ reg[p] \in Command /\ call \in [Proc -> Call]
      /\ reg' = [reg EXCEPT ![p].step = "publish"] /\ call[p].stage = "ok"
      /\ reg[p].step = "index" /\ UNCHANGED <<stored, alone, sound, raced>>
  BY DEF RegisterInv, TypeOK, StoreTypeOK, WriteIndex
<1>3. /\ reg'[p].name = reg[p].name /\ reg'[p].source = reg[p].source
      /\ reg'[p].artifact = reg[p].artifact /\ reg'[p].hash = reg[p].hash
      /\ reg'[p].step = "publish" /\ \A q \in Proc \ {p} : reg'[q] = reg[q]
  BY <1>2 DEF Command
<1>4. /\ call'[p].stage = "writing" /\ call'[p].doc = d
      /\ \A q \in Proc \ {p} : call'[q] = call[q]
  BY <1>1, <1>2 DEF OpenTmp
<1>5. /\ \A q \in Proc : FileInv(q)'
      /\ FileOf(reg'[p]) = FileOf(reg[p]) /\ KeyOf(reg'[p]) = KeyOf(reg[p])
      /\ \A g : Registered(g)' => Registered(g)
  BY <1>2, <1>3, <1>4, UpdateFiles
<1>6. ASSUME ~raced
      PROVE  /\ \A e \in Indexed' : Registered(e.file)' => stored'[e.file] = e.hash
             /\ \A q \in Proc : Writing(q)' => NewDoc(q)'
  <2>1. Indexed' = Indexed
    BY <1>1, <1>6, OpenTmpFile, RegistryAssumption DEF RegisterInv, SerialInv, Indexed
  <2>2. call[p].doc = Indexed
    BY <1>2, <1>6 DEF SerialInv, UpdateInv
  <2>3. EntryOf(reg'[p]) = EntryOf(reg[p])
    BY <1>3, <1>5 DEF EntryOf
  <2>4. NewDoc(p)'
    BY <1>1, <1>4, <1>5, <2>1, <2>2, <2>3 DEF NewDoc, Kept
  <2>5. ASSUME NEW q \in Proc \ {p}, Writing(q)' PROVE NewDoc(q)'
    <3>1. Writing(q) /\ reg'[q] = reg[q] /\ call'[q] = call[q]
      BY <1>3, <1>4, <2>5 DEF Writing
    <3> QED  BY <1>6, <2>1, <3>1 DEF IntactInv, NewDoc
  <2>6. \A e \in Indexed' : Registered(e.file)' => stored'[e.file] = e.hash
    BY <1>2, <1>5, <1>6, <2>1 DEF IntactInv
  <2> QED  BY <2>4, <2>5, <2>6
<1> QED  BY <1>2, <1>5, <1>6 DEF IntactInv

(* A publishing step makes the document of its call the index.             *)
LEMMA PublishedDoc ==
  ASSUME NEW p \in Proc, RegisterInv, SerialInv, ~raced, StoreStep(p),
         reg[p].step = "publish", call'[p].stage = "ok"
  PROVE  Indexed' = call[p].doc /\ Writing(p)
<1>1. /\ CallStep(p) /\ CommandInv(p) /\ StoreInv /\ Index \in Path \ overlapped
      /\ PathInv(Index) /\ InIndex(p)
  BY RegistryAssumption DEF StoreStep, RegisterInv, StoreInv, SerialInv
<1>2. CallAfter(p)
  BY <1>1, CallAfterStep
<1>3. ReplaceFile(p)
  BY <1>1, <1>2 DEF CallAfter, Ended, CommandInv, LoadFile, WriteStage
<1>4. call[p].stage = "closed" /\ call[p].path = Index
  BY <1>3, WriterUpdates DEF ReplaceFile, WriteStage
<1>5. p \in WritersOf(Index)
  BY <1>4 DEF WritersOf, WriteStage
<1>6. call[p].fd = tmp[Index] /\ content[tmp[Index]] = Text(call[p].doc) /\ call[p].fd \in Inode
  BY <1>1, <1>4, <1>5 DEF PathInv, StoreInv, CallShape, WriteStage
<1>7. file'[Index] = tmp[Index] /\ content' = content
  BY <1>1, <1>3, <1>4, <1>6, StoreAssumption DEF ReplaceFile, StoreInv, StoreTypeOK
<1> QED  BY <1>4, <1>6, <1>7, StoreAssumption DEF Indexed, Current, Text, Writing, WriteStage

(* Any other step of the store leaves the index alone.                     *)
LEMMA UnpublishedDoc ==
  ASSUME NEW p \in Proc, RegisterInv, SerialInv, ~raced, StoreStep(p),
         ~(reg[p].step = "publish" /\ call'[p].stage = "ok")
  PROVE  Indexed' = Indexed
<1>1. CASE call[p].stage = "closed"
  <2>1. reg[p].step = "publish" /\ ReplaceFile(p) /\ call \in [Proc -> Call]
    BY <1>1, WriterUpdates
       DEF StoreStep, CallStep, CloseTmp, DumpFails, ReplaceFile, OpenFile, LoadFile,
           WriteStage, RegisterInv, TypeOK, StoreTypeOK
  <2>2. UNCHANGED <<file, content>>
    BY <2>1 DEF ReplaceFile, Ended
  <2> QED  BY <2>2, QuietStep
<1>2. CASE call[p].stage # "closed"
  BY <1>2, IndexAfter DEF Indexed
<1> QED  BY <1>1, <1>2

LEMMA StoreStepIntact ==
  ASSUME NEW p \in Proc, RegisterInv, SerialInv, IntactInv, StoreStep(p)
  PROVE  IntactInv'
<1>1. /\ CallStep(p) /\ InIndex(p) /\ CommandInv(p) /\ StoreInv
      /\ UNCHANGED <<built, stored, reg, raced, acked, alone, sound, counters>>
  BY DEF StoreStep, RegisterInv
<1>2. CallAfter(p)
  BY <1>1, CallAfterStep
<1>3. \A q \in Proc \ {p} : reg'[q] = reg[q] /\ call'[q] = call[q]
  BY <1>1, <1>2 DEF CallAfter
<1>4. reg'[p] = reg[p] /\ reg[p].step \in {"copied", "index", "publish"}
  BY <1>1 DEF InIndex
<1>5. /\ \A q \in Proc : FileInv(q)'
      /\ \A g : Registered(g)' =>
           \/ Registered(g)
           \/ /\ p \in alone /\ g = FileOf(reg[p])
              /\ reg[p].step = "publish" /\ call'[p].stage = "ok"
  BY <1>1, <1>3, <1>4, UpdateFiles
<1>6. ASSUME ~raced, reg[p].step = "publish", call'[p].stage = "ok"
      PROVE  /\ \A e \in Indexed' : Registered(e.file)' => stored'[e.file] = e.hash
             /\ \A q \in Proc : ~Writing(q)'
  <2>1. Indexed' = call[p].doc /\ Writing(p) /\ NewDoc(p)
    BY <1>6, PublishedDoc DEF IntactInv
  <2>2. \A q \in Proc : ~Writing(q)'
    <3>1. ~Writing(p)'
      BY <1>6 DEF Writing, WriteStage
    <3>2. ASSUME NEW q \in Proc \ {p}, Writing(q)' PROVE FALSE
      <4>1. Updating(q) /\ Updating(p)
        BY <1>3, <2>1, <3>2 DEF Writing, Updating
      <4> QED  BY <1>6, <4>1 DEF SerialInv
    <3> QED  BY <3>1, <3>2
  <2>3. HasOpened(p, FileOf(reg[p])) /\ FileOf(reg[p]) \notin sound
    BY <1>6 DEF HasOpened, IntactInv, FileInv
  <2>4. ASSUME Registered(FileOf(reg[p]))'
        PROVE  stored[FileOf(reg[p])] = reg[p].hash
    <3>1. PICK q \in alone : /\ reg[q].step = "publish"
                             /\ FileOf(reg[q]) = FileOf(reg[p])
      BY <1>1, <2>3, <2>4 DEF Registered
    <3>2. q \in Proc /\ Others(q) = {}
      BY DEF IntactInv, FileInv
    <3>3. q = p
      BY <2>3, <3>1, <3>2 DEF Others
    <3>4. FileInv(p) /\ p \in alone
      BY <3>3 DEF IntactInv
    <3> QED  BY <1>6, <3>4 DEF FileInv
  <2>5. ASSUME NEW e \in Indexed', Registered(e.file)'
        PROVE  stored[e.file] = e.hash
    <3>1. CASE e = EntryOf(reg[p])
      <4>1. e.file = FileOf(reg[p]) /\ e.hash = reg[p].hash
        BY <3>1 DEF EntryOf
      <4>2. Registered(FileOf(reg[p]))'
        BY <1>1, <2>5, <4>1 DEF Registered
      <4> QED  BY <2>4, <4>1, <4>2
    <3>2. CASE e \in Indexed /\ e.key # KeyOf(reg[p])
      <4>1. e.file.key = e.key
        BY <3>2, IndexedDoc DEF Indexes, CopiedEntries
      <4>2. e.file # FileOf(reg[p])
        BY <3>2, <4>1 DEF FileOf
      <4>3. Registered(e.file)
        BY <1>5, <2>5, <4>2
      <4> QED  BY <1>6, <3>2, <4>3 DEF IntactInv
    <3> QED  BY <2>1, <2>5, <3>1, <3>2 DEF NewDoc
  <2> QED  BY <1>1, <2>2, <2>5
<1>7. ASSUME ~raced, ~(reg[p].step = "publish" /\ call'[p].stage = "ok")
      PROVE  /\ \A e \in Indexed' : Registered(e.file)' => stored'[e.file] = e.hash
             /\ \A q \in Proc : Writing(q)' => NewDoc(q)'
  <2>1. Indexed' = Indexed
    BY <1>7, UnpublishedDoc
  <2>2. \A e \in Indexed' : Registered(e.file)' => stored'[e.file] = e.hash
    BY <1>1, <1>5, <1>7, <2>1 DEF IntactInv
  <2>3. ASSUME NEW q \in Proc \ {p}, Writing(q)' PROVE NewDoc(q)'
    <3>1. Writing(q) /\ reg'[q] = reg[q] /\ call'[q] = call[q]
      BY <1>3, <2>3 DEF Writing
    <3> QED  BY <1>7, <2>1, <3>1 DEF IntactInv, NewDoc
  <2>4. ASSUME Writing(p)' PROVE NewDoc(p)'
    <3>1. reg[p].step = "publish" /\ call'[p].stage \in WriteStage
      BY <1>4, <2>4 DEF Writing
    <3>2. CloseTmp(p) /\ call'[p].doc = call[p].doc /\ call[p].stage = "writing"
      BY <1>1, <1>2, <3>1 DEF CallAfter, Ended, WriteStage, CommandInv, OpenFile, CloseTmp
    <3>3. Writing(p)
      BY <3>1, <3>2 DEF Writing, WriteStage
    <3> QED  BY <1>4, <1>7, <2>1, <3>2, <3>3 DEF IntactInv, NewDoc
  <2> QED  BY <2>2, <2>3, <2>4
<1>8. alone' \subseteq Proc /\ raced' = raced
  BY <1>1 DEF IntactInv
<1>9. CASE raced
  BY <1>5, <1>8, <1>9 DEF IntactInv
<1>10. CASE ~raced /\ reg[p].step = "publish" /\ call'[p].stage = "ok"
  BY <1>5, <1>6, <1>8, <1>10 DEF IntactInv
<1>11. CASE ~raced /\ ~(reg[p].step = "publish" /\ call'[p].stage = "ok")
  BY <1>5, <1>7, <1>8, <1>11 DEF IntactInv
<1> QED  BY <1>9, <1>10, <1>11

LEMMA StartIntact ==
  ASSUME NEW p \in Proc, NEW r \in Requests, RegisterInv, IntactInv, Start(p, r)
  PROVE  IntactInv'
<1>1. reg \in [Proc -> Command]
  BY DEF RegisterInv, TypeOK
<1>2. /\ UNCHANGED <<storeVars, stored, raced, alone, sound>> /\ reg[p].step \in Over
      /\ \A q \in Proc \ {p} : reg'[q] = reg[q]
      /\ reg'[p].step \in {"refused", "hash"}
  BY <1>1 DEF Start, Refuse, NoCommand
<1> QED  BY <1>2, BeforeIntact DEF Over

LEMMA BrokenIntact ==
  ASSUME NEW p \in Proc, RegisterInv, IntactInv, CopyFails(p) \/ Fail(p) \/ Kill(p)
  PROVE  IntactInv'
<1>1. call \in [Proc -> Call]
  BY DEF RegisterInv, TypeOK, StoreTypeOK
<1>2. BreakOff(p)
  BY DEF CopyFails, Fail, Kill, BreakOff, InIndex
<1>3. \E s \in Over : reg' = [reg EXCEPT ![p] = NoCommand(s)]
  BY DEF CopyFails, Fail, Kill, Refuse, Over
<1>4. UNCHANGED <<file, content, raced, sound>> /\ alone' = alone \ {p}
  BY DEF CopyFails, Fail, Kill, KillCall, storeVars
<1>5. \A q \in Proc \ {p} : call'[q] = call[q]
  BY <1>1 DEF CopyFails, Fail, Kill, KillCall, storeVars
<1> QED  BY <1>2, <1>3, <1>4, <1>5, EndIntact

LEMMA IntactInitInv == Init => IntactInv
<1> SUFFICES ASSUME Init PROVE IntactInv
  OBVIOUS
<1>1. /\ \A p \in Proc : reg[p].step = "idle"
      /\ alone = {} /\ sound = {}
  BY DEF Init, NoCommand
<1> QED  BY <1>1 DEF IntactInv, FileInv, HasOpened, Registered, Writing

LEMMA IntactStepInv == RegisterInv /\ SerialInv /\ IntactInv /\ [Next]_vars => IntactInv'
<1> SUFFICES ASSUME RegisterInv, SerialInv, IntactInv, [Next]_vars PROVE IntactInv'
  OBVIOUS
<1>1. ASSUME NEW p \in Proc, NEW r \in Requests, Start(p, r) PROVE IntactInv'
  BY <1>1, StartIntact
<1>2. ASSUME NEW p \in Proc, Register(p) PROVE IntactInv'
  BY <1>2, HashFileIntact, OpenCopyIntact, FinishCopyIntact, BrokenIntact, ReadIndexIntact,
     WriteIndexIntact, StoreStepIntact, FinishIntact DEF Register
<1>3. ASSUME NEW p \in Proc, Kill(p) PROVE IntactInv'
  BY <1>3, BrokenIntact
<1>4. CASE (\E a \in Artifact : Build(a)) \/ UNCHANGED vars
  <2>1. UNCHANGED <<file, content, call, stored, reg, raced, alone, sound>>
    BY <1>4 DEF Build, vars, storeVars
  <2>2. Indexed' = Indexed
    BY <2>1, QuietStep
  <2>3. \A p \in Proc : FileInv(p)' <=> FileInv(p)
    BY <2>1 DEF FileInv, HasOpened, Others
  <2>4. \A f : Registered(f)' <=> Registered(f)
    BY <2>1 DEF Registered
  <2>5. \A p \in Proc : (Writing(p)' <=> Writing(p)) /\ (NewDoc(p)' <=> NewDoc(p))
    BY <2>1, <2>2 DEF Writing, NewDoc
  <2> QED  BY <2>1, <2>2, <2>3, <2>4, <2>5 DEF IntactInv
<1> QED  BY <1>1, <1>2, <1>3, <1>4 DEF Next

(* The index lists a file with the hash of what it holds, once a command   *)
(* that no other met in that file has registered it and until a command    *)
(* opens it again: whatever builds, kills, full disks and other            *)
(* registrations do, and whatever they had left in the file before, as     *)
(* long as no two commands have updated the index at the same time.        *)
THEOREM RegistryArtifactsIntact == Spec => []ListedArtifactIntact
<1>1. IntactInv => ListedArtifactIntact
  BY DEF IntactInv, Registered, ListedArtifactIntact
<1>2. Init => IntactInv
  BY IntactInitInv
<1>3. RegisterInv /\ SerialInv /\ IntactInv /\ [Next]_vars => IntactInv'
  BY IntactStepInv
<1> QED  BY <1>1, <1>2, <1>3, RegistryInvariant, RegistrySerial, PTL DEF Spec

=============================================================================
