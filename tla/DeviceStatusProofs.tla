-------------------------- MODULE DeviceStatusProofs --------------------------
(***************************************************************************)
(* What discover and toolchain probe leave in the store, and what status   *)
(* shows of it, for any number of processes, commands and crashes.         *)
(***************************************************************************)
EXTENDS DeviceStatus, StoreProofs

(* The report that a reader of x gets now.                                 *)
Report(x) == Newest(Current(x).doc)

ReportsUpTo(n) == {{}} \cup {{m} : m \in {k \in Number : k <= n}}

(* What a discover or a probe has in each step, of its report x: until it  *)
(* has replaced the file, the file holds an older report.                  *)
MakerInv(p) ==
  LET c == cmd[p]
      x == ReportOf(c.kind)
  IN  /\ c.step \in {"next", "running", "hanging", "publish"}
      /\ c.number \in Number /\ c.number <= commands
      /\ c.ran <= Len(Programs(c.kind))
      /\ c.step \in {"running", "hanging"} => c.ran < Len(Programs(c.kind))
      /\ c.step = "publish" =>
           /\ ProgramsRun(p)
           /\ call[p].stage \in WriteStage \cup {"ok", "error"}
           /\ call[p].stage \in WriteStage => call[p].path = x /\ call[p].doc = {c.number}
           /\ call[p].stage = "closed" => c.text
      /\ x \notin crossed =>
           IF Written(p) THEN Report(x) = c.number ELSE Report(x) < c.number

(* What a status has in each step, of a path x it has yet to read, reads,  *)
(* or has read.                                                            *)
Reading(p, x) ==
  /\ call[p].stage = "found"   => floor[p][x] <= Report(x)
  /\ call[p].stage = "reading" => floor[p][x] <= Newest(content[call[p].fd].doc)
  /\ call[p].stage = "ok"      => floor[p][x] <= Newest(call[p].doc)

StatusInv(p) ==
  LET step == cmd[p].step
  IN  /\ step \in {"next", "devices", "toolchains"} /\ cmd[p].ran = 0
      /\ step \in {"devices", "toolchains"} =>
           /\ call[p].stage \notin WriteStage
           /\ call[p].path \in {NoPath, IF step = "devices" THEN Devices ELSE Toolchains}
      /\ Devices \notin crossed =>
           /\ step = "next"       => floor[p][Devices] <= Report(Devices)
           /\ step = "devices"    => Reading(p, Devices)
           /\ step = "toolchains" => floor[p][Devices] <= shown[p][Devices]
      /\ Toolchains \notin crossed =>
           /\ step \in {"next", "devices"} => floor[p][Toolchains] <= Report(Toolchains)
           /\ step = "toolchains"          => Reading(p, Toolchains)

CommandInv(p) ==
  /\ cmd[p].step \notin {"publish", "devices", "toolchains"} => Ready(p)
  /\ cmd[p].step \in Active /\ cmd[p].kind # "status" => MakerInv(p)
  /\ cmd[p].step \in Active /\ cmd[p].kind = "status" => StatusInv(p)

ReportInv ==
  /\ StoreInv
  /\ TypeOK
  /\ overlapped \subseteq crossed
  /\ \A x \in Path \ crossed, p, q \in Proc : Making(p, x) /\ Making(q, x) => p = q
  /\ \A x \in Path : PathDocs(x, ReportsUpTo(commands))
  /\ \A x \in Path \ crossed : printed[x] <= Report(x)
  /\ \A p \in Proc : CommandInv(p)
  /\ StatusFresh
-----------------------------------------------------------------------------
LEMMA NewestOf == \A n : Newest({n}) = n
  BY DEF Newest

LEMMA NumbersNat == \A n \in Number \cup {0} : n \in Nat
  BY StatusAssumption DEF Number

LEMMA NewestUpTo ==
  ASSUME NEW n \in Nat, NEW d \in ReportsUpTo(n)
  PROVE  Newest(d) \in Nat /\ Newest(d) <= n
<1>1. CASE d = {}
  BY <1>1 DEF Newest
<1>2. CASE d # {}
  <2>1. PICK m \in Number : m <= n /\ d = {m}
    BY <1>2 DEF ReportsUpTo
  <2>2. m \in Nat
    BY NumbersNat
  <2> QED  BY <2>1, <2>2, NewestOf
<1> QED  BY <1>1, <1>2

LEMMA ReportsGrow ==
  ASSUME NEW m \in Nat, NEW n \in Nat, m <= n
  PROVE  ReportsUpTo(m) \subseteq ReportsUpTo(n)
  BY StatusAssumption DEF ReportsUpTo, Number

(* The numbers of the model are numbers.                                   *)
LEMMA Numbers ==
  ASSUME ReportInv
  PROVE  /\ commands \in Nat /\ MaxCommands \in Nat /\ Number \subseteq Nat
         /\ \A x \in Path : Report(x) \in Nat /\ Report(x) <= commands
         /\ \A x \in Path : printed[x] \in Nat
         /\ \A p \in Proc, x \in Path : floor[p][x] \in Nat /\ shown[p][x] \in Nat
         /\ \A p \in Proc : cmd[p].number \in Nat /\ cmd[p].ran \in Nat /\ cmd[p].kind \in Kind
<1>1. commands \in Nat /\ MaxCommands \in Nat /\ Number \subseteq Nat
  BY StatusAssumption DEF ReportInv, TypeOK, Number
<1>2. ASSUME NEW x \in Path PROVE Report(x) \in Nat /\ Report(x) <= commands
  <2>1. PICK D : D = ReportsUpTo(commands)
    OBVIOUS
  <2>2. {} \in D /\ PathDocs(x, D) /\ StoreInv
    BY <2>1 DEF ReportInv, ReportsUpTo
  <2>3. Current(x).doc \in D
    BY <2>2, CurrentDoc
  <2> QED  BY <1>1, <2>1, <2>3, NewestUpTo DEF Report
<1>3. ASSUME NEW x \in Path PROVE printed[x] \in Nat
  <2>1. printed[x] \in Number \cup {0}
    BY DEF ReportInv, TypeOK
  <2> QED  BY <2>1, NumbersNat
<1>4. ASSUME NEW p \in Proc, NEW x \in Path PROVE floor[p][x] \in Nat /\ shown[p][x] \in Nat
  <2>1. floor[p] \in [Path -> Number \cup {0}] /\ shown[p] \in [Path -> Number \cup {0}]
    BY DEF ReportInv, TypeOK
  <2>2. floor[p][x] \in Number \cup {0} /\ shown[p][x] \in Number \cup {0}
    BY <2>1
  <2> QED  BY <2>2, NumbersNat
<1>5. ASSUME NEW p \in Proc
      PROVE  cmd[p].number \in Nat /\ cmd[p].ran \in Nat /\ cmd[p].kind \in Kind
  <2>1. cmd[p] \in Command
    BY DEF ReportInv, TypeOK
  <2>2. cmd[p].number \in Number \cup {0} /\ cmd[p].ran \in 0..3 /\ cmd[p].kind \in Kind
    BY <2>1 DEF Command
  <2> QED  BY <2>2, NumbersNat
<1> QED  BY <1>1, <1>2, <1>3, <1>4, <1>5

LEMMA ReportPaths ==
  /\ Devices \in Path /\ Toolchains \in Path /\ Devices # Toolchains
  /\ \A k : ReportOf(k) \in Path
  BY StatusAssumption DEF ReportOf

LEMMA ProgramCounts ==
  /\ Len(Programs("discover")) = 2 /\ Len(Programs("probe")) = 3
  /\ Len(Programs("status")) = 0
  /\ \A k \in Kind : Len(Programs(k)) \in {0, 2, 3}
  BY DEF Programs, Kind

-----------------------------------------------------------------------------
(* What ReportInv asks of a step of the process p.                         *)
LEMMA ReportStep ==
  ASSUME NEW p \in Proc, ReportInv, StoreInv', TypeOK',
         \A q \in Proc \ {p} : /\ cmd'[q] = cmd[q] /\ call'[q] = call[q]
                               /\ shown'[q] = shown[q] /\ floor'[q] = floor[q],
         crossed \subseteq crossed', overlapped' \subseteq crossed', commands <= commands',
         NEW D, D = ReportsUpTo(commands'), \A x \in Path : PathDocs(x, D)',
         \A x \in Path \ crossed' :
           \/ Report(x)' = Report(x)
           \/ Making(p, x) /\ Report(x) <= Report(x)',
         \A x \in Path \ crossed', i \in Inode : Seen(x, i) => content'[i] = content[i],
         \A x \in Path \ crossed', q \in Proc \ {p} :
           Making(p, x)' /\ Making(q, x) => Making(p, x),
         \A x \in Path \ crossed' : printed'[x] <= Report(x)',
         CommandInv(p)',
         cmd'[p].step = "done" /\ cmd'[p].kind = "status" =>
           \A x \in Path \ crossed' : shown'[p][x] >= floor'[p][x]
  PROVE  ReportInv'
<1>1. /\ \A x \in Path : Report(x) \in Nat
      /\ \A q \in Proc, x \in Path : floor[q][x] \in Nat
      /\ commands \in Nat /\ commands' \in Nat
      /\ \A q \in Proc : cmd[q].number \in Nat
  BY Numbers DEF TypeOK
<1>2. ASSUME NEW x \in Path PROVE Report(x)' \in Nat
  <2>2. {} \in D /\ PathDocs(x, D)'
    BY DEF ReportsUpTo
  <2>3. Current(x)'.doc \in D
    <3>1. Current(x)' = IF file'[x] = NoInode THEN Missing ELSE content'[file'[x]]
      BY DEF Current
    <3> QED  BY <2>2, <3>1 DEF PathDocs, Missing, Holds, StoreInv, StoreTypeOK
  <2> QED  BY <1>1, <2>3, NewestUpTo DEF Report
<1>3. ASSUME NEW q \in Proc \ {p} PROVE CommandInv(q)'
  <2>1. /\ CommandInv(q) /\ cmd'[q] = cmd[q] /\ call'[q] = call[q]
        /\ shown'[q] = shown[q] /\ floor'[q] = floor[q] /\ (Ready(q)' <=> Ready(q))
    BY DEF ReportInv, Ready
  <2>2. ASSUME MakerInv(q), cmd[q].step \in Active, cmd[q].kind # "status"
        PROVE  MakerInv(q)'
    <3>1. PICK x \in Path : x = ReportOf(cmd[q].kind)
      BY ReportPaths
    <3>2. x \notin crossed' => Report(x)' = Report(x)
      BY <2>2, <3>1 DEF ReportInv, Making
    <3>3. cmd[q].number <= commands'
      BY <1>1, <2>2 DEF MakerInv
    <3> QED  BY <2>1, <2>2, <3>1, <3>2, <3>3 DEF MakerInv, Written, ProgramsRun
  <2>3. ASSUME StatusInv(q) PROVE StatusInv(q)'
    <3>1. ASSUME NEW x \in Path \ crossed', floor[q][x] <= Report(x)
          PROVE  floor[q][x] <= Report(x)'
      BY <1>1, <1>2, <3>1
    <3>2. ASSUME NEW x \in Path \ crossed', call[q].path \in {NoPath, x}, Reading(q, x)
          PROVE  Reading(q, x)'
      <4>1. ASSUME call[q].stage = "reading"
            PROVE  content'[call[q].fd] = content[call[q].fd]
        <5>1. call[q].path = x /\ call[q].fd \in Inode
          BY <3>2, <4>1, StoreAssumption DEF ReportInv, StoreInv, CallShape
        <5> QED  BY <4>1, <5>1 DEF Seen
      <4>2. call[q].stage = "found" => floor[q][x] <= Report(x)'
        BY <3>1, <3>2 DEF Reading
      <4> QED  BY <2>1, <3>2, <4>1, <4>2 DEF Reading
    <3>3. /\ Devices \notin crossed' => Devices \in Path \ crossed' /\ Devices \notin crossed
          /\ Toolchains \notin crossed' => Toolchains \in Path \ crossed' /\ Toolchains \notin crossed
      BY ReportPaths
    <3>4. Devices \notin crossed' =>
            /\ cmd[q].step = "next"       => floor[q][Devices] <= Report(Devices)'
            /\ cmd[q].step = "devices"    => Reading(q, Devices)'
            /\ cmd[q].step = "toolchains" => floor[q][Devices] <= shown[q][Devices]
      BY <2>3, <3>1, <3>2, <3>3 DEF StatusInv
    <3>5. Toolchains \notin crossed' =>
            /\ cmd[q].step \in {"next", "devices"} => floor[q][Toolchains] <= Report(Toolchains)'
            /\ cmd[q].step = "toolchains"          => Reading(q, Toolchains)'
      BY <2>3, <3>1, <3>2, <3>3 DEF StatusInv
    <3> QED  BY <2>1, <2>3, <3>4, <3>5 DEF StatusInv
  <2> QED  BY <2>1, <2>2, <2>3 DEF CommandInv
<1>4. ASSUME NEW x \in Path \ crossed', NEW q \in Proc, NEW s \in Proc,
             Making(q, x)', Making(s, x)'
      PROVE  q = s
  <2>1. \A t \in Proc \ {p} : Making(t, x)' <=> Making(t, x)
    BY DEF Making
  <2> QED  BY <1>4, <2>1 DEF ReportInv
<1>5. StatusFresh'
  <2>1. \A q \in Proc \ {p} : cmd'[q].step = "done" /\ cmd'[q].kind = "status" =>
          \A x \in Path \ crossed' : shown'[q][x] >= floor'[q][x]
    BY DEF ReportInv, StatusFresh
  <2> QED  BY <2>1 DEF StatusFresh
<1>6. \A x \in Path : PathDocs(x, ReportsUpTo(commands))'
  BY DEF PathDocs
<1>7. \A q \in Proc : CommandInv(q)'
  BY <1>3
<1> QED  BY <1>4, <1>5, <1>6, <1>7 DEF ReportInv

-----------------------------------------------------------------------------
LEMMA SameReports ==
  ASSUME UNCHANGED storeVars
  PROVE  \A x : Report(x)' = Report(x)
  BY DEF storeVars, Report, Current, Missing

(* The process p takes a step that is no step of the store.                *)
LEMMA CommandStep ==
  ASSUME NEW p \in Proc, ReportInv, UNCHANGED storeVars, TypeOK',
         \A q \in Proc \ {p} :
           cmd'[q] = cmd[q] /\ shown'[q] = shown[q] /\ floor'[q] = floor[q],
         crossed \subseteq crossed', commands <= commands',
         \A x \in Path \ crossed', q \in Proc \ {p} :
           Making(p, x)' /\ Making(q, x) => Making(p, x),
         \A x \in Path \ crossed' : printed'[x] <= Report(x),
         CommandInv(p)',
         cmd'[p].step = "done" /\ cmd'[p].kind = "status" =>
           \A x \in Path \ crossed' : shown'[p][x] >= floor'[p][x]
  PROVE  ReportInv'
<1>1. UNCHANGED <<file, tmp, content, call, overlapped>>
  BY DEF storeVars
<1>2. StoreInv' /\ overlapped' \subseteq crossed'
  BY <1>1, IdleStepInv DEF ReportInv
<1>3. \A x : Report(x)' = Report(x)
  BY SameReports
<1>4. PICK D : D = ReportsUpTo(commands')
  OBVIOUS
<1>5. ASSUME NEW x \in Path PROVE PathDocs(x, D)'
  <2>1. commands \in Nat /\ commands' \in Nat
    BY Numbers DEF TypeOK
  <2>2. \A d \in ReportsUpTo(commands) : d \in D
    BY <1>4, <2>1, ReportsGrow
  <2>3. PathDocs(x, ReportsUpTo(commands))
    BY DEF ReportInv
  <2> QED  BY <1>1, <2>2, <2>3 DEF PathDocs, Holds
<1> QED  BY <1>1, <1>2, <1>3, <1>4, <1>5, ReportStep

(* A command that ends without a word, by itself or with an error.         *)
LEMMA EndInv ==
  ASSUME NEW p \in Proc, ReportInv, UNCHANGED storeVars, Ready(p),
         cmd' = [cmd EXCEPT ![p] = NoCommand("raised")], UNCHANGED statusVars
  PROVE  ReportInv'
<1>1. /\ cmd \in [Proc -> Command] /\ TypeOK
      /\ UNCHANGED <<file, tmp, content, call, overlapped>>
      /\ UNCHANGED <<printed, shown, floor, crossed, commands, kills>>
  BY DEF ReportInv, TypeOK, storeVars, statusVars
<1>2. NoCommand("raised") \in Command
  BY DEF NoCommand, Command, Over, Kind
<1>3. /\ cmd' \in [Proc -> Command] /\ cmd'[p] = NoCommand("raised")
      /\ \A q \in Proc \ {p} : cmd'[q] = cmd[q]
  BY <1>1, <1>2
<1>4. cmd'[p].step = "raised" /\ "raised" \notin Active
  BY <1>3 DEF NoCommand, Active
<1>5. CommandInv(p)' /\ \A x : ~Making(p, x)'
  BY <1>1, <1>4 DEF CommandInv, Making, Ready
<1>6. TypeOK'
  BY <1>1, <1>3 DEF TypeOK, StoreTypeOK
<1>7. commands \in Nat /\ \A x \in Path \ crossed : printed[x] <= Report(x)
  BY Numbers DEF ReportInv
<1> QED  BY <1>1, <1>3, <1>4, <1>5, <1>6, <1>7, CommandStep

(* A discover or a probe that goes on to its next program.                 *)
LEMMA ProgramInv ==
  ASSUME NEW p \in Proc, ReportInv, UNCHANGED storeVars, UNCHANGED statusVars,
         cmd[p].step \in {"next", "running", "hanging"}, cmd[p].kind # "status",
         NEW c \in Command, cmd' = [cmd EXCEPT ![p] = c],
         c.step \in {"next", "running", "hanging"},
         c.kind = cmd[p].kind, c.number = cmd[p].number,
         c.ran <= Len(Programs(c.kind)), c.step # "next" => c.ran < Len(Programs(c.kind))
  PROVE  ReportInv'
<1>1. /\ cmd \in [Proc -> Command] /\ TypeOK
      /\ UNCHANGED <<file, tmp, content, call, overlapped>>
      /\ UNCHANGED <<printed, shown, floor, crossed, commands, kills>>
  BY DEF ReportInv, TypeOK, storeVars, statusVars
<1>2. /\ cmd' \in [Proc -> Command] /\ cmd'[p] = c
      /\ \A q \in Proc \ {p} : cmd'[q] = cmd[q]
  BY <1>1
<1>3. TypeOK'
  BY <1>1, <1>2 DEF TypeOK, StoreTypeOK
<1>4. MakerInv(p) /\ Ready(p)
  BY DEF ReportInv, CommandInv, Active
<1>5. \A x : Report(x)' = Report(x)
  BY SameReports
<1>6. ~Written(p) /\ ~Written(p)' /\ c.step \in Active /\ cmd[p].step \in Active
  BY <1>2 DEF Written, Active
<1>7. MakerInv(p)'
  BY <1>1, <1>2, <1>4, <1>5, <1>6 DEF MakerInv
<1>8. CommandInv(p)'
  BY <1>1, <1>2, <1>4, <1>6, <1>7 DEF CommandInv, Ready
<1>9. \A x : Making(p, x)' => Making(p, x)
  BY <1>2, <1>6 DEF Making
<1>10. commands \in Nat /\ \A x \in Path \ crossed : printed[x] <= Report(x)
  BY Numbers DEF ReportInv
<1> QED  BY <1>1, <1>2, <1>3, <1>8, <1>9, <1>10, CommandStep

LEMMA LaunchInv ==
  ASSUME NEW p \in Proc, ReportInv, Launch(p)
  PROVE  ReportInv'
<1>1. /\ cmd \in [Proc -> Command] /\ cmd[p] \in Command
      /\ cmd[p].step = "next" /\ ~ProgramsRun(p)
      /\ UNCHANGED storeVars /\ UNCHANGED statusVars
  BY DEF ReportInv, TypeOK, Launch
<1>2. cmd[p].ran \in Nat /\ cmd[p].kind \in Kind
  BY Numbers
<1>3. cmd[p].kind # "status" => MakerInv(p)
  BY <1>1 DEF ReportInv, CommandInv, Active
<1>0. PICK n \in {0, 2, 3} : n = Len(Programs(cmd[p].kind))
  BY <1>2, ProgramCounts
<1>4. cmd[p].kind # "status" => cmd[p].ran < n
  BY <1>0, <1>1, <1>2, <1>3 DEF MakerInv, ProgramsRun
<1>5. CASE cmd[p].kind = "status"
  <2>1. cmd[p].ran = 0
    BY <1>1, <1>5 DEF ReportInv, CommandInv, StatusInv, Active
  <2> QED  BY <1>1, <1>5, <2>1, ProgramCounts DEF ProgramsRun
<1>6. CASE cmd[p].kind # "status"
  <2>1. ASSUME NEW s \in {"running", "hanging"}, cmd' = [cmd EXCEPT ![p].step = s]
        PROVE  ReportInv'
    <3>1. PICK c : c = [cmd[p] EXCEPT !.step = s]
      OBVIOUS
    <3>2. /\ c.step = s /\ c.kind = cmd[p].kind /\ c.number = cmd[p].number
          /\ c.ran = cmd[p].ran /\ c \in Command
      BY <1>1, <3>1 DEF Command, Active
    <3>3. cmd' = [cmd EXCEPT ![p] = c]
      BY <2>1, <3>1
    <3>4. c.ran < Len(Programs(c.kind)) /\ c.ran <= Len(Programs(c.kind))
      BY <1>0, <1>2, <1>4, <1>6, <3>2
    <3>5. c.step \in {"next", "running", "hanging"}
      BY <3>2
    <3> QED  BY <1>1, <1>6, <3>2, <3>3, <3>4, <3>5, ProgramInv
  <2>2. ASSUME cmd' = [cmd EXCEPT ![p].ran = @ + 1] PROVE ReportInv'
    <3>1. PICK c : c = [cmd[p] EXCEPT !.ran = @ + 1]
      OBVIOUS
    <3>2. cmd[p].ran + 1 <= Len(Programs(cmd[p].kind)) /\ cmd[p].ran + 1 \in 0..3
      <4>1. cmd[p].ran < n /\ n \in Nat /\ n <= 3 /\ cmd[p].ran \in Nat
        BY <1>2, <1>4, <1>6
      <4>2. cmd[p].ran + 1 <= n /\ cmd[p].ran + 1 \in 0..3
        BY <4>1
      <4> QED  BY <1>0, <4>2
    <3>3. /\ c.step = "next" /\ c.kind = cmd[p].kind /\ c.number = cmd[p].number
          /\ c.ran = cmd[p].ran + 1 /\ c \in Command
      BY <1>1, <3>1, <3>2 DEF Command, Active
    <3>4. cmd' = [cmd EXCEPT ![p] = c]
      BY <2>2, <3>1
    <3> QED  BY <1>1, <1>6, <3>2, <3>3, <3>4, ProgramInv
  <2> QED  BY <2>1, <2>2 DEF Launch
<1> QED  BY <1>5, <1>6

(* The program that a discover or a probe waits for has ended.             *)
LEMMA NextProgram ==
  ASSUME NEW p \in Proc, ReportInv, UNCHANGED storeVars, UNCHANGED statusVars,
         cmd[p].step \in {"running", "hanging"},
         NEW t \in BOOLEAN,
         NEW c, c = [step |-> "next", kind |-> cmd[p].kind, ran |-> cmd[p].ran + 1,
                     number |-> cmd[p].number, text |-> t],
         cmd' = [cmd EXCEPT ![p] = c]
  PROVE  ReportInv'
<1>1. cmd[p] \in Command /\ cmd[p].ran \in Nat /\ cmd[p].kind \in Kind
  BY Numbers DEF ReportInv, TypeOK
<1>2. cmd[p].kind # "status" /\ MakerInv(p)
  BY DEF ReportInv, CommandInv, StatusInv, Active
<1>3. PICK n \in {0, 2, 3} : n = Len(Programs(cmd[p].kind))
  BY <1>1, ProgramCounts
<1>4. cmd[p].ran < n /\ n \in Nat /\ n <= 3
  <2>1. cmd[p].ran < Len(Programs(cmd[p].kind))
    BY <1>2 DEF MakerInv
  <2>2. n \in Nat /\ n <= 3
    OBVIOUS
  <2>3. cmd[p].ran < n
    BY Zenon, <1>3, <2>1
  <2> QED  BY <2>2, <2>3
<1>5. cmd[p].ran + 1 <= n /\ cmd[p].ran + 1 \in 0..3
  BY <1>1, <1>4
<1>6. c \in Command
  BY <1>1, <1>5 DEF Command, Active
<1>7. /\ c.step = "next" /\ c.kind = cmd[p].kind /\ c.number = cmd[p].number
      /\ c.ran <= Len(Programs(c.kind))
  BY <1>3, <1>5
<1>8. cmd[p].step \in {"next", "running", "hanging"}
  OBVIOUS
<1> QED  BY <1>2, <1>6, <1>7, <1>8, ProgramInv

LEMMA AnswerInv ==
  ASSUME NEW p \in Proc, ReportInv, Answer(p)
  PROVE  ReportInv'
<1>1. /\ cmd \in [Proc -> Command] /\ cmd[p] \in Command
      /\ cmd[p].step = "running" /\ UNCHANGED storeVars /\ UNCHANGED statusVars
  BY DEF ReportInv, TypeOK, Answer
<1>2. CASE Raise(p)
  <2>1. Ready(p)
    BY <1>1 DEF ReportInv, CommandInv
  <2> QED  BY <1>1, <1>2, <2>1, EndInv DEF Raise
<1>3. CASE cmd' = [cmd EXCEPT ![p].step = "next", ![p].ran = @ + 1]
  <2>1. PICK t : t = cmd[p].text
    OBVIOUS
  <2>2. PICK c : c = [step |-> "next", kind |-> cmd[p].kind, ran |-> cmd[p].ran + 1,
                      number |-> cmd[p].number, text |-> t]
    OBVIOUS
  <2>3. cmd' = [cmd EXCEPT ![p] = c] /\ t \in BOOLEAN
    BY <1>1, <1>3, <2>1, <2>2 DEF Command
  <2> QED  BY <1>1, <2>2, <2>3, NextProgram
<1> QED  BY <1>2, <1>3 DEF Answer

LEMMA TimeOutInv ==
  ASSUME NEW p \in Proc, ReportInv, TimeOut(p)
  PROVE  ReportInv'
<1>1. /\ cmd \in [Proc -> Command] /\ cmd[p] \in Command /\ cmd[p].text \in BOOLEAN
      /\ cmd[p].step = "hanging" /\ UNCHANGED storeVars /\ UNCHANGED statusVars
  BY DEF ReportInv, TypeOK, TimeOut, Command
<1>2. PICK captured \in Captured :
        cmd' = [cmd EXCEPT ![p].step = "next", ![p].ran = @ + 1,
                           ![p].text = @ /\ captured \notin Reported(Program(p))]
  BY DEF TimeOut
<1>3. PICK t \in BOOLEAN : t = (cmd[p].text /\ captured \notin Reported(Program(p)))
  BY <1>1
<1>4. PICK c : c = [step |-> "next", kind |-> cmd[p].kind, ran |-> cmd[p].ran + 1,
                    number |-> cmd[p].number, text |-> t]
  OBVIOUS
<1>5. cmd' = [cmd EXCEPT ![p] = c]
  BY <1>1, <1>2, <1>3, <1>4 DEF Command
<1> QED  BY <1>1, <1>4, <1>5, NextProgram

(* A new command has the greatest number, and of two commands that make    *)
(* reports of one path at once the path is crossed.                        *)
LEMMA BeginInv ==
  ASSUME NEW p \in Proc, NEW kind \in Kind, ReportInv, Begin(p, kind)
  PROVE  ReportInv'
<1> DEFINE c == [step |-> "next", kind |-> kind, ran |-> 0, number |-> commands',
                 text |-> TRUE]
<1>1. /\ cmd \in [Proc -> Command] /\ TypeOK /\ UNCHANGED storeVars
      /\ UNCHANGED <<file, tmp, content, call, overlapped>>
      /\ UNCHANGED <<printed, kills>>
      /\ commands < MaxCommands /\ commands' = commands + 1
      /\ cmd' = [cmd EXCEPT ![p] = c] /\ cmd[p].step \in Over
  BY DEF ReportInv, TypeOK, Begin, storeVars
<1>2. /\ commands \in Nat /\ MaxCommands \in Nat
      /\ \A x \in Path : Report(x) \in Nat
      /\ \A x \in Path : Report(x) <= commands
  BY Numbers
<1>3. commands' \in Number /\ commands' \in 0..MaxCommands /\ commands <= commands'
      /\ commands' \in Nat
  BY <1>1, <1>2 DEF Number
<1>4. c \in Command
  BY <1>3 DEF Command, Active
<1>5. /\ cmd' \in [Proc -> Command] /\ cmd'[p] = c
      /\ \A q \in Proc \ {p} : cmd'[q] = cmd[q]
  BY <1>1, <1>4
<1>6. /\ crossed \subseteq crossed' /\ crossed' \in SUBSET Path
      /\ kind # "status" /\ ReportOf(kind) \notin crossed' =>
           \A q \in Proc : ~Making(q, ReportOf(kind))
  BY <1>1, ReportPaths DEF Begin, TypeOK
<1>7. PICK none : none = [x \in Path |-> 0]
  OBVIOUS
<1>8. PICK start : start = IF kind = "status" THEN printed ELSE none
  OBVIOUS
<1>9. /\ shown \in [Proc -> [Path -> Number \cup {0}]]
      /\ floor \in [Proc -> [Path -> Number \cup {0}]]
      /\ none \in [Path -> Number \cup {0}] /\ start \in [Path -> Number \cup {0}]
      /\ shown' = [shown EXCEPT ![p] = none]
  BY <1>1, <1>7, <1>8 DEF TypeOK, Begin
<1>10. floor' = [floor EXCEPT ![p] = start]
  <2>1. shown'[p] = none
    BY <1>9
  <2>2. floor' = [floor EXCEPT ![p] = IF kind = "status" THEN printed ELSE shown'[p]]
    BY DEF Begin
  <2>3. start = IF kind = "status" THEN printed ELSE shown'[p]
    BY <1>8, <2>1
  <2> QED  BY <2>2, <2>3
<1>11. /\ shown' \in [Proc -> [Path -> Number \cup {0}]]
       /\ floor' \in [Proc -> [Path -> Number \cup {0}]]
       /\ floor'[p] = start
       /\ \A q \in Proc \ {p} : shown'[q] = shown[q] /\ floor'[q] = floor[q]
  BY <1>9, <1>10
<1>12. TypeOK'
  BY <1>1, <1>3, <1>5, <1>6, <1>11 DEF TypeOK, StoreTypeOK
<1>13. \A x : Report(x)' = Report(x)
  BY SameReports, <1>1
<1>14. /\ Ready(p)' /\ ~Written(p)' /\ c.step = "next" /\ c.step \in Active
       /\ c.kind = kind /\ c.ran = 0 /\ c.number = commands'
  <2>1. Ready(p)
    BY <1>1 DEF ReportInv, CommandInv, Over
  <2> QED  BY <1>1, <1>5, <2>1 DEF Ready, Written, Active
<1>15. ASSUME kind # "status" PROVE MakerInv(p)'
  <2>1. ReportOf(kind) \in Path /\ Report(ReportOf(kind)) < commands'
    BY <1>1, <1>2, ReportPaths
  <2>2. 0 <= Len(Programs(kind))
    BY ProgramCounts
  <2> QED  BY <1>3, <1>5, <1>13, <1>14, <1>15, <2>1, <2>2 DEF MakerInv
<1>16. ASSUME kind = "status" PROVE StatusInv(p)'
  <2>1. \A x \in Path \ crossed' : floor'[p][x] <= Report(x)
    BY <1>6, <1>8, <1>11, <1>16 DEF ReportInv
  <2> QED  BY <1>5, <1>13, <1>14, <2>1, ReportPaths DEF StatusInv
<1>17. CommandInv(p)'
  BY <1>5, <1>14, <1>15, <1>16 DEF CommandInv
<1>18. \A x \in Path \ crossed', q \in Proc \ {p} : ~(Making(p, x)' /\ Making(q, x))
  BY <1>5, <1>6, <1>14 DEF Making
<1>19. \A x \in Path \ crossed' : printed'[x] <= Report(x)
  BY <1>1, <1>6 DEF ReportInv
<1>20. cmd'[p].step # "done"
  BY <1>5, <1>14
<1> QED  BY <1>1, <1>3, <1>5, <1>6, <1>11, <1>12, <1>17, <1>18, <1>19, <1>20, CommandStep

-----------------------------------------------------------------------------
(* Facts of ReportInv that the steps of the store need.                    *)
LEMMA ReportFacts ==
  ASSUME NEW p \in Proc, ReportInv
  PROVE  /\ StoreInv /\ TypeOK /\ StoreTypeOK /\ CommandInv(p)
         /\ call \in [Proc -> Call] /\ cmd \in [Proc -> Command] /\ cmd[p] \in Command
         /\ overlapped \subseteq crossed /\ crossed \subseteq Path
         /\ \A x \in Path \ crossed : x \in Path \ overlapped /\ printed[x] <= Report(x)
  BY DEF ReportInv, TypeOK, StoreTypeOK

(* The processes that are writing a report make it.                        *)
LEMMA WriterMakes ==
  ASSUME NEW q \in Proc, ReportInv, call[q].stage \in WriteStage
  PROVE  /\ cmd[q].step = "publish" /\ cmd[q].step \in Active /\ cmd[q].kind # "status"
         /\ call[q].path = ReportOf(cmd[q].kind) /\ MakerInv(q)
<1>1. CommandInv(q) /\ ~Ready(q)
  BY DEF ReportInv, Ready, WriteStage, EndStage
<1>2. cmd[q].step \in {"publish", "devices", "toolchains"} /\ cmd[q].step \in Active
  BY <1>1 DEF CommandInv, Active
<1>3. cmd[q].kind # "status" /\ MakerInv(q)
  BY <1>1, <1>2 DEF CommandInv, StatusInv
<1> QED  BY <1>2, <1>3 DEF MakerInv

LEMMA PublishInv ==
  ASSUME NEW p \in Proc, ReportInv, Publish(p)
  PROVE  ReportInv'
<1>1. PICK x \in Path : x = ReportOf(cmd[p].kind)
  BY ReportPaths
<1>2. PICK d : d = {cmd[p].number} /\ OpenTmp(p, x, d)
  BY <1>1 DEF Publish
<1>3. /\ StoreInv /\ TypeOK /\ StoreTypeOK /\ CommandInv(p)
      /\ call \in [Proc -> Call] /\ cmd \in [Proc -> Command] /\ cmd[p] \in Command
      /\ overlapped \subseteq crossed /\ crossed \subseteq Path
      /\ \A y \in Path \ crossed : y \in Path \ overlapped /\ printed[y] <= Report(y)
  BY ReportFacts
<1>4. /\ cmd[p].step = "next" /\ cmd[p].step \in Active /\ cmd[p].kind # "status"
      /\ ProgramsRun(p)
      /\ cmd' = [cmd EXCEPT ![p].step = "publish"]
      /\ UNCHANGED <<printed, shown, floor, crossed, commands, kills>>
  BY DEF Publish, statusVars, Active
<1>5. MakerInv(p) /\ commands \in Nat
  BY <1>3, <1>4, Numbers DEF CommandInv
<1>6. cmd[p].number \in Number /\ cmd[p].number <= commands
  BY <1>5 DEF MakerInv
<1>7. PICK D : D = ReportsUpTo(commands)
  OBVIOUS
<1>8. d \in D /\ {} \in D /\ d \in Doc
  BY <1>2, <1>6, <1>7, StatusAssumption DEF ReportsUpTo, Doc
<1>9. StoreInv'
  BY <1>2, <1>3, <1>8, OpenTmpInv
<1>10. ASSUME NEW y \in Path PROVE PathDocs(y, D)'
  <2>1. PathDocs(y, D)
    BY <1>7 DEF ReportInv
  <2> QED  BY <1>2, <1>3, <1>8, <2>1, OpenTmpDocs
<1>11. PICK i : call' = [call EXCEPT ![p] =
                           [stage |-> "writing", path |-> x, fd |-> i, doc |-> d]]
  BY <1>2 DEF OpenTmp
<1>12. /\ call'[p] = [stage |-> "writing", path |-> x, fd |-> i, doc |-> d]
       /\ \A q \in Proc \ {p} : call'[q] = call[q]
  BY <1>3, <1>11
<1>13. PICK c : c = [cmd[p] EXCEPT !.step = "publish"]
  OBVIOUS
<1>14. /\ c \in Command /\ c.step = "publish" /\ c.kind = cmd[p].kind /\ c.ran = cmd[p].ran
       /\ c.number = cmd[p].number /\ c.text = cmd[p].text
  BY <1>3, <1>13 DEF Command, Active
<1>15. /\ cmd' \in [Proc -> Command] /\ cmd'[p] = c
       /\ \A q \in Proc \ {p} : cmd'[q] = cmd[q]
  BY <1>3, <1>4, <1>13, <1>14
<1>16. TypeOK'
  BY <1>3, <1>4, <1>9, <1>15 DEF TypeOK, StoreInv
<1>17. \A y \in Path \ crossed : Report(y)' = Report(y)
  <2> SUFFICES ASSUME NEW y \in Path \ crossed PROVE Report(y)' = Report(y)
    OBVIOUS
  <2>1. Current(y)' = Current(y)
    BY <1>2, <1>3, OpenTmpFile
  <2> QED  BY <2>1 DEF Report
<1>18. \A y \in Path \ crossed, j \in Inode : Seen(y, j) => content'[j] = content[j]
  BY <1>2, <1>3, OpenTmpKeepsSeen
<1>19. overlapped' \subseteq crossed
  <2>1. ASSUME NEW q \in WritersOf(x) PROVE x \in crossed
    <3>1. q \in Proc /\ call[q].stage \in WriteStage /\ call[q].path = x
      BY DEF WritersOf
    <3>2. Making(q, x) /\ Making(p, x)
      BY <1>1, <1>4, <3>1, WriterMakes DEF Making
    <3>3. q # p
      BY <1>4, <3>1, WriterMakes
    <3> QED  BY <3>1, <3>2, <3>3 DEF ReportInv
  <2>2. overlapped' = IF WritersOf(x) = {} THEN overlapped ELSE overlapped \cup {x}
    BY <1>2 DEF OpenTmp
  <2> QED  BY <1>3, <2>1, <2>2
<1>20. /\ call'[p].stage = "writing" /\ call'[p].path = x /\ call'[p].doc = {c.number}
       /\ ~Written(p) /\ ~Written(p)' /\ c.step \in Active
  BY <1>2, <1>4, <1>12, <1>14, <1>15 DEF Written, Active
<1>21. MakerInv(p)'
  <2>1. ProgramsRun(p)'
    BY <1>4, <1>14, <1>15 DEF ProgramsRun
  <2>2. c.ran <= Len(Programs(c.kind))
    BY <1>5, <1>14 DEF MakerInv
  <2>3. x \notin crossed => Report(x)' < c.number
    BY <1>1, <1>5, <1>14, <1>17, <1>20 DEF MakerInv
  <2> QED  BY <1>1, <1>4, <1>6, <1>14, <1>15, <1>20, <2>1, <2>2, <2>3
           DEF MakerInv, WriteStage
<1>22. CommandInv(p)'
  BY <1>4, <1>14, <1>15, <1>21 DEF CommandInv
<1>23. \A y : Making(p, y)' => Making(p, y)
  BY <1>4, <1>14, <1>15 DEF Making
<1>24. \A y \in Path \ crossed' : printed'[y] <= Report(y)'
  BY <1>3, <1>4, <1>17
<1>25. commands <= commands' /\ crossed' = crossed /\ D = ReportsUpTo(commands')
       /\ overlapped' \subseteq crossed' /\ cmd'[p].step # "done"
  BY <1>4, <1>5, <1>7, <1>14, <1>15, <1>19
<1> QED  BY <1>4, <1>9, <1>10, <1>12, <1>15, <1>16, <1>17, <1>18, <1>22, <1>23, <1>24,
            <1>25, ReportStep

-----------------------------------------------------------------------------
(* A status that begins to read x will get a report that is new enough.    *)
LEMMA CheckReading ==
  ASSUME NEW p \in Proc, NEW x \in Path, ReportInv, CheckExists(p, x), UNCHANGED floor,
         floor[p][x] <= Report(x)
  PROVE  Reading(p, x)'
<1>1. call \in [Proc -> Call] /\ UNCHANGED <<file, tmp, content, overlapped>>
  BY ReportFacts DEF CheckExists
<1>2. Report(x)' = Report(x)
  BY <1>1 DEF Report, Current, Missing
<1>3. CASE file[x] = NoInode
  <2>1. call'[p] = Ended("ok", {}) /\ Report(x) = Newest({})
    BY <1>1, <1>3 DEF CheckExists, Report, Current, Missing
  <2> QED  BY <2>1 DEF Reading, Ended
<1>4. CASE file[x] # NoInode
  <2>1. call'[p].stage = "found"
    BY <1>1, <1>4 DEF CheckExists
  <2> QED  BY <1>2, <2>1 DEF Reading
<1> QED  BY <1>3, <1>4

LEMMA ReadFileInv ==
  ASSUME NEW p \in Proc, NEW x \in Path, NEW step \in {"devices", "toolchains"}, ReportInv,
         ReadFile(p, x, step), cmd[p].step \in {"next", "devices"}, cmd[p].kind = "status",
         x = IF step = "devices" THEN Devices ELSE Toolchains,
         UNCHANGED <<printed, floor, crossed, commands, kills>>,
         shown' \in [Proc -> [Path -> Number \cup {0}]],
         \A q \in Proc \ {p} : shown'[q] = shown[q],
         Devices \notin crossed =>
           /\ step = "devices"    => floor[p][Devices] <= Report(Devices)
           /\ step = "toolchains" => floor[p][Devices] <= shown'[p][Devices]
  PROVE  ReportInv'
<1>1. /\ StoreInv /\ TypeOK /\ StoreTypeOK /\ CommandInv(p)
      /\ call \in [Proc -> Call] /\ cmd \in [Proc -> Command] /\ cmd[p] \in Command
      /\ overlapped \subseteq crossed /\ crossed \subseteq Path
      /\ \A y \in Path \ crossed : y \in Path \ overlapped /\ printed[y] <= Report(y)
  BY ReportFacts
<1>2. /\ CheckExists(p, x) /\ cmd' = [cmd EXCEPT ![p].step = step]
      /\ UNCHANGED <<file, tmp, content, overlapped>>
  BY DEF ReadFile, CheckExists
<1>3. PICK c : c = [cmd[p] EXCEPT !.step = step]
  OBVIOUS
<1>4. /\ c \in Command /\ c.step = step /\ c.kind = "status" /\ c.ran = cmd[p].ran
  BY <1>1, <1>3 DEF Command, Active
<1>5. /\ cmd' \in [Proc -> Command] /\ cmd'[p] = c
      /\ \A q \in Proc \ {p} : cmd'[q] = cmd[q]
  BY <1>1, <1>2, <1>3, <1>4
<1>6. /\ \A q \in Proc \ {p} : call'[q] = call[q]
      /\ call'[p].stage \in {"ok", "found"} /\ call'[p].path \in {NoPath, x}
  BY <1>1, <1>2 DEF CheckExists, Ended
<1>7. StoreInv'
  BY <1>1, <1>2, CheckExistsInv
<1>8. TypeOK'
  BY <1>1, <1>5, <1>7 DEF TypeOK, StoreInv
<1>9. \A y : Report(y)' = Report(y)
  BY <1>2 DEF Report, Current, Missing
<1>10. PICK D : D = ReportsUpTo(commands)
  OBVIOUS
<1>11. ASSUME NEW y \in Path PROVE PathDocs(y, D)'
  <2>1. PathDocs(y, D) /\ {} \in D
    BY <1>10 DEF ReportInv, ReportsUpTo
  <2> QED  BY <1>1, <1>2, <2>1, CheckExistsDocs
<1>12. StatusInv(p) /\ cmd[p].step \in Active
  BY <1>1 DEF CommandInv, Active
<1>13. StatusInv(p)'
  <2>1. ASSUME Toolchains \notin crossed PROVE floor[p][Toolchains] <= Report(Toolchains)
    BY <1>12, <2>1 DEF StatusInv
  <2>2. ASSUME Devices \notin crossed, step = "devices" PROVE Reading(p, Devices)'
    BY <1>2, <2>2, CheckReading
  <2>3. ASSUME Toolchains \notin crossed, step = "toolchains" PROVE Reading(p, Toolchains)'
    BY <1>2, <2>1, <2>3, CheckReading
  <2>4. call'[p].stage \notin WriteStage /\ cmd[p].ran = 0
    BY <1>6, <1>12 DEF WriteStage, StatusInv
  <2> QED  BY <1>4, <1>5, <1>6, <1>9, <2>1, <2>2, <2>3, <2>4 DEF StatusInv
<1>14. CommandInv(p)' /\ \A y : ~Making(p, y)'
  BY <1>4, <1>5, <1>13 DEF CommandInv, Making
<1>15. commands <= commands' /\ D = ReportsUpTo(commands') /\ cmd'[p].step # "done"
  BY <1>4, <1>5, <1>10, Numbers
<1> QED  BY <1>1, <1>2, <1>5, <1>6, <1>7, <1>8, <1>9, <1>11, <1>14, <1>15, ReportStep

LEMMA ReadDevicesInv ==
  ASSUME NEW p \in Proc, ReportInv, ReadDevices(p)
  PROVE  ReportInv'
<1>1. /\ cmd[p].step = "next" /\ cmd[p].kind = "status" /\ cmd[p].step \in Active
      /\ ReadFile(p, Devices, "devices") /\ UNCHANGED statusVars
  BY DEF ReadDevices, Active
<1>2. UNCHANGED <<printed, shown, floor, crossed, commands, kills>>
  BY <1>1 DEF statusVars
<1>3. StatusInv(p) /\ TypeOK
  BY <1>1 DEF ReportInv, CommandInv
<1>4. /\ Devices \notin crossed => floor[p][Devices] <= Report(Devices)
      /\ shown' \in [Proc -> [Path -> Number \cup {0}]]
  BY <1>1, <1>2, <1>3 DEF StatusInv, TypeOK
<1> QED  BY <1>1, <1>2, <1>4, ReadFileInv, ReportPaths

(* What a status has read of x is the number of a report.                  *)
LEMMA ReadNumber ==
  ASSUME NEW p \in Proc, NEW x \in Path, ReportInv, call[p].stage = "ok"
  PROVE  Newest(call[p].doc) \in Number \cup {0}
<1>1. call[p] \in Call
  BY ReportFacts
<1>2. call[p].doc \subseteq Number
  BY <1>1, StatusAssumption DEF Call, Doc
<1> QED  BY <1>2 DEF Newest

LEMMA ReadToolchainsInv ==
  ASSUME NEW p \in Proc, ReportInv, ReadToolchains(p)
  PROVE  ReportInv'
<1>1. /\ cmd[p].step = "devices" /\ cmd[p].step \in Active /\ call[p].stage = "ok"
      /\ shown' = [shown EXCEPT ![p][Devices] = Newest(call[p].doc)]
      /\ ReadFile(p, Toolchains, "toolchains")
      /\ UNCHANGED <<printed, floor, crossed, commands, kills>>
  BY DEF ReadToolchains, Active
<1>2. cmd[p].kind = "status" /\ StatusInv(p)
  BY <1>1 DEF ReportInv, CommandInv, MakerInv
<1>3. PICK n \in Number \cup {0} : n = Newest(call[p].doc)
  BY <1>1, ReadNumber, ReportPaths
<1>4. shown \in [Proc -> [Path -> Number \cup {0}]]
  BY ReportFacts DEF TypeOK
<1>5. /\ shown' \in [Proc -> [Path -> Number \cup {0}]]
      /\ shown'[p][Devices] = n /\ \A q \in Proc \ {p} : shown'[q] = shown[q]
  <2>1. PICK s : s = [shown[p] EXCEPT ![Devices] = n]
    OBVIOUS
  <2>2. s \in [Path -> Number \cup {0}] /\ s[Devices] = n
    BY <1>4, <2>1, ReportPaths
  <2>3. shown' = [shown EXCEPT ![p] = s]
    BY <1>1, <1>3, <2>1
  <2> QED  BY <1>4, <2>2, <2>3
<1>6. Devices \notin crossed => floor[p][Devices] <= shown'[p][Devices]
  BY <1>1, <1>2, <1>3, <1>5 DEF StatusInv, Reading
<1> QED  BY <1>1, <1>2, <1>5, <1>6, ReadFileInv, ReportPaths

-----------------------------------------------------------------------------
(* A step of write_json: the report of x, once replaced, is that of p.     *)
LEMMA MakerStep ==
  ASSUME NEW p \in Proc, ReportInv, StoreStep(p), CallStep(p), CallAfter(p),
         cmd[p].step = "publish", UNCHANGED <<cmd, crossed, commands>>
  PROVE  CommandInv(p)'
<1>1. /\ CommandInv(p) /\ StoreInv /\ cmd[p].step \in Active
      /\ \A y \in Path \ crossed : y \in Path \ overlapped
  BY ReportFacts DEF Active
<1>2. PICK x \in Path : x = ReportOf(cmd[p].kind)
  BY ReportPaths
<1>3. cmd[p].kind # "status" /\ MakerInv(p)
  BY <1>1 DEF CommandInv, StatusInv
<1>4. /\ call[p].stage \in WriteStage /\ call[p].path = x /\ call[p].doc = {cmd[p].number}
      /\ ~OpenFile(p) /\ ~LoadFile(p)
  <2>1. call[p].stage \notin EndStage
    BY DEF CallStep, CloseTmp, DumpFails, ReplaceFile, OpenFile, LoadFile, EndStage
  <2>2. call[p].stage \in WriteStage /\ call[p].path = x /\ call[p].doc = {cmd[p].number}
    BY <1>2, <1>3, <2>1 DEF MakerInv, EndStage
  <2> QED  BY <2>2 DEF OpenFile, LoadFile, WriteStage
<1>5. /\ call'[p].stage \in WriteStage \cup {"ok", "error"}
      /\ call'[p].stage \in WriteStage => call'[p].path = x /\ call'[p].doc = {cmd[p].number}
  BY <1>4 DEF CallAfter, Ended, WriteStage
<1>6. ASSUME call'[p].stage = "closed" PROVE cmd[p].text
  <2>1. CloseTmp(p)
    BY <1>4, <1>6 DEF CallAfter, Ended
  <2>2. ~DumpFails(p)
    BY <1>1, <1>6 DEF DumpFails, Ended, StoreInv, StoreTypeOK
  <2>3. call[p].stage = "writing"
    BY <2>1 DEF CloseTmp
  <2> QED  BY <2>2, <2>3 DEF StoreStep
<1>7. ~Written(p) /\ cmd[p].number \in Nat
  BY <1>4, Numbers DEF Written, WriteStage
<1>8. ASSUME x \notin crossed, ~Written(p)' PROVE Report(x)' < cmd[p].number
  <2>1. Report(x) < cmd[p].number
    BY <1>2, <1>3, <1>7, <1>8 DEF MakerInv
  <2>2. Current(x)' = Current(x) \/ call'[p] = Ended("ok", {})
    BY <1>1, <1>8, CallStepFile
  <2>3. call'[p] # Ended("ok", {})
    BY <1>8 DEF Written, Ended
  <2> QED  BY <2>1, <2>2, <2>3 DEF Report
<1>9. ASSUME x \notin crossed, Written(p)' PROVE Report(x)' = cmd[p].number
  <2>1. ReplaceFile(p) /\ call'[p].stage = "ok"
    BY <1>4, <1>9 DEF CallAfter, Ended, Written
  <2>2. Current(x)' = Text(call[p].doc)
    BY <1>1, <1>4, <1>9, <2>1, ReplacedCurrent
  <2>3. Current(x)'.doc = {cmd[p].number}
    BY <1>4, <2>2 DEF Text
  <2>4. Report(x)' = Newest({cmd[p].number})
    BY <2>3 DEF Report
  <2> QED  BY <2>4, NewestOf
<1>10. MakerInv(p)'
  BY <1>2, <1>3, <1>5, <1>6, <1>8, <1>9 DEF MakerInv, ProgramsRun
<1> QED  BY <1>3, <1>10 DEF CommandInv

(* A step of read_json: what is read is as new as the file was.            *)
LEMMA ReaderStep ==
  ASSUME NEW p \in Proc, ReportInv, CallStep(p), CallAfter(p),
         cmd[p].step \in {"devices", "toolchains"},
         UNCHANGED <<cmd, crossed, commands, shown, floor>>,
         \A x \in Path \ crossed, i \in Inode : Seen(x, i) => content'[i] = content[i]
  PROVE  /\ CommandInv(p)'
         /\ \A x \in Path \ crossed : Report(x)' = Report(x)
<1>1. /\ CommandInv(p) /\ StoreInv /\ cmd[p].step \in Active
      /\ \A y \in Path \ crossed : y \in Path \ overlapped
      /\ file \in [Path -> Inode \cup {NoInode}]
  BY ReportFacts DEF Active, StoreTypeOK
<1>2. cmd[p].kind = "status" /\ StatusInv(p)
  BY <1>1 DEF CommandInv, MakerInv
<1>3. PICK x \in Path : x = IF cmd[p].step = "devices" THEN Devices ELSE Toolchains
  BY ReportPaths
<1>4. /\ call[p].stage \notin WriteStage /\ call[p].path \in {NoPath, x}
      /\ x \notin crossed => Reading(p, x)
  BY <1>2, <1>3 DEF StatusInv
<1>5. (OpenFile(p) \/ LoadFile(p)) /\ call[p].path = x
  <2>1. call[p].path \in Path
    BY <1>1, <1>4 DEF CallStep, CloseTmp, DumpFails, ReplaceFile, OpenFile, LoadFile, WriteStage,
                      StoreInv, CallShape
  <2> QED  BY <1>4, <2>1, StoreAssumption
           DEF CallStep, CloseTmp, DumpFails, ReplaceFile, WriteStage
<1>6. UNCHANGED <<file, tmp, content, overlapped>> /\ \A y : Report(y)' = Report(y)
  BY <1>5 DEF OpenFile, LoadFile, Report, Current, Missing
<1>7. /\ call'[p].stage \notin WriteStage /\ call'[p].path \in {NoPath, x}
      /\ call'[p].stage # "found"
  <2>1. ~CloseTmp(p) /\ ~ReplaceFile(p)
    BY <1>4 DEF CloseTmp, ReplaceFile, WriteStage
  <2>2. /\ call'[p].stage \in {"reading", "ok", "error"}
        /\ call'[p].path \in {NoPath, call[p].path}
    BY <2>1 DEF CallAfter, Ended
  <2> QED  BY <1>5, <2>2 DEF WriteStage
<1>8. ASSUME x \notin crossed PROVE Reading(p, x)'
  <2>1. CASE OpenFile(p)
    <3>1. call[p].stage = "found" /\ ~LoadFile(p) /\ ~CloseTmp(p) /\ ~ReplaceFile(p)
      BY <2>1 DEF OpenFile, LoadFile, CloseTmp, ReplaceFile
    <3>2. floor[p][x] <= Report(x)
      BY <1>4, <1>8, <3>1 DEF Reading
    <3>3. \/ call'[p].stage = "error"
          \/ /\ call'[p].stage = "reading" /\ call'[p].fd = file[x]
             /\ file[x] # NoInode
      BY <1>5, <3>1, StoreAssumption DEF CallAfter, Ended
    <3>4. file[x] # NoInode => Report(x) = Newest(content[file[x]].doc)
      BY DEF Report, Current
    <3> QED  BY <1>6, <3>2, <3>3, <3>4 DEF Reading
  <2>2. CASE LoadFile(p)
    <3>1. call[p].stage = "reading" /\ ~OpenFile(p) /\ ~CloseTmp(p) /\ ~ReplaceFile(p)
      BY <2>2 DEF OpenFile, LoadFile, CloseTmp, ReplaceFile
    <3>2. floor[p][x] <= Newest(content[call[p].fd].doc)
      BY <1>4, <1>8, <3>1 DEF Reading
    <3>3. \/ call'[p].stage = "error"
          \/ call'[p].stage = "ok" /\ call'[p].doc = content[call[p].fd].doc
      BY <3>1 DEF CallAfter, Ended
    <3> QED  BY <3>2, <3>3 DEF Reading
  <2> QED  BY <1>5, <2>1, <2>2
<1>9. StatusInv(p)'
  BY <1>2, <1>3, <1>6, <1>7, <1>8 DEF StatusInv
<1> QED  BY <1>2, <1>6, <1>9 DEF CommandInv

LEMMA StoreStepInv ==
  ASSUME NEW p \in Proc, ReportInv, StoreStep(p)
  PROVE  ReportInv'
<1>1. /\ cmd[p].step \in {"publish", "devices", "toolchains"} /\ CallStep(p)
      /\ UNCHANGED <<cmd, printed, shown, floor, crossed, commands, kills>>
  BY DEF StoreStep, CallStep, statusVars
<1>2. /\ StoreInv /\ TypeOK /\ CommandInv(p) /\ overlapped \subseteq crossed
      /\ \A y \in Path \ crossed : y \in Path \ overlapped /\ printed[y] <= Report(y)
  BY ReportFacts
<1>3. CallAfter(p) /\ StoreInv'
  BY <1>1, <1>2, CallAfterStep, CallStepInv
<1>4. overlapped' = overlapped /\ \A q \in Proc \ {p} : call'[q] = call[q]
  BY <1>1, <1>3 DEF CallAfter, CallStep, CloseTmp, DumpFails, ReplaceFile, OpenFile, LoadFile
<1>5. TypeOK'
  BY <1>1, <1>2, <1>3 DEF TypeOK, StoreInv
<1>6. PICK D : D = ReportsUpTo(commands)
  OBVIOUS
<1>7. ASSUME NEW y \in Path PROVE PathDocs(y, D)'
  <2>1. PathDocs(y, D) /\ {} \in D
    BY <1>6 DEF ReportInv, ReportsUpTo
  <2> QED  BY <1>1, <1>2, <2>1, CallStepDocs
<1>8. \A y \in Path \ crossed, i \in Inode : Seen(y, i) => content'[i] = content[i]
  BY <1>1, <1>2, CallStepKeepsSeen
<1>9. /\ CommandInv(p)'
      /\ \A y \in Path \ crossed :
           \/ Report(y)' = Report(y)
           \/ Making(p, y) /\ Report(y) <= Report(y)' /\ Report(y)' \in Nat
  <2>1. CASE cmd[p].step = "publish"
    <3>1. CommandInv(p)'
      BY <1>1, <1>3, <2>1, MakerStep
    <3>2. ASSUME NEW y \in Path \ crossed, Report(y)' # Report(y)
          PROVE  Making(p, y) /\ Report(y) <= Report(y)' /\ Report(y)' \in Nat
      <4>1. /\ call[p].path = y /\ call[p].stage = "closed"
            /\ Current(y)' = Text(call[p].doc)
        <5>1. Current(y)' # Current(y)
          BY <3>2 DEF Report
        <5> QED  BY <1>1, <1>2, <5>1, CallStepFile
      <4>2. Making(p, y) /\ MakerInv(p) /\ y = ReportOf(cmd[p].kind)
        BY <4>1, WriterMakes DEF Making, WriteStage
      <4>3. ~Written(p) /\ call[p].doc = {cmd[p].number}
        BY <2>1, <4>1, <4>2 DEF Written, MakerInv, WriteStage
      <4>4. Report(y) < cmd[p].number
        BY <3>2, <4>2, <4>3 DEF MakerInv
      <4>5. Current(y)'.doc = {cmd[p].number}
        BY <4>1, <4>3 DEF Text
      <4>6. Report(y)' = cmd[p].number
        BY <4>5, NewestOf DEF Report
      <4>7. Report(y) \in Nat /\ cmd[p].number \in Nat
        BY Numbers
      <4> QED  BY <4>2, <4>4, <4>6, <4>7
    <3> QED  BY <3>1, <3>2
  <2>2. CASE cmd[p].step \in {"devices", "toolchains"}
    BY <1>1, <1>3, <1>8, <2>2, ReaderStep
  <2> QED  BY <1>1, <2>1, <2>2
<1>10. ASSUME NEW y \in Path \ crossed PROVE printed[y] <= Report(y)'
  <2>1. Report(y) \in Nat /\ printed[y] \in Nat /\ printed[y] <= Report(y)
    BY <1>2, Numbers
  <2> QED  BY <1>9, <2>1
<1>11. /\ commands <= commands' /\ D = ReportsUpTo(commands') /\ cmd'[p].step # "done"
       /\ overlapped' \subseteq crossed' /\ \A y : Making(p, y)' => Making(p, y)
  BY <1>1, <1>2, <1>4, <1>6, Numbers DEF Making
<1> QED  BY <1>1, <1>3, <1>4, <1>5, <1>7, <1>8, <1>9, <1>10, <1>11, ReportStep

-----------------------------------------------------------------------------
LEMMA ShowInv ==
  ASSUME NEW p \in Proc, ReportInv, Show(p)
  PROVE  ReportInv'
<1>1. /\ UNCHANGED storeVars /\ UNCHANGED <<file, tmp, content, call, overlapped>>
      /\ UNCHANGED <<floor, crossed, commands, kills>>
      /\ cmd' = [cmd EXCEPT ![p].step = "done"]
      /\ cmd[p].step \in {"publish", "toolchains"} /\ call[p].stage = "ok"
  BY DEF Show, Written, storeVars
<1>2. /\ TypeOK /\ CommandInv(p) /\ cmd \in [Proc -> Command] /\ cmd[p] \in Command
      /\ cmd[p].step \in Active /\ \A y \in Path \ crossed : printed[y] <= Report(y)
      /\ printed \in [Path -> Number \cup {0}]
      /\ shown \in [Proc -> [Path -> Number \cup {0}]]
  BY <1>1, ReportFacts DEF Active, TypeOK
<1>3. PICK c : c = [cmd[p] EXCEPT !.step = "done"]
  OBVIOUS
<1>4. c \in Command /\ c.step = "done" /\ c.kind = cmd[p].kind
  BY <1>2, <1>3 DEF Command, Over
<1>5. /\ cmd' \in [Proc -> Command] /\ cmd'[p] = c
      /\ \A q \in Proc \ {p} : cmd'[q] = cmd[q]
  BY <1>1, <1>2, <1>3, <1>4
<1>6. CommandInv(p)' /\ \A y : ~Making(p, y)'
  BY <1>1, <1>4, <1>5 DEF CommandInv, Making, Ready, EndStage, Active
<1>7. commands <= commands'
  BY <1>1, Numbers
<1>8. CASE cmd[p].step = "publish"
  <2>1. PICK x \in Path : x = ReportOf(cmd[p].kind)
    BY ReportPaths
  <2>2. MakerInv(p) /\ c.kind # "status"
    BY <1>2, <1>4, <1>8 DEF CommandInv, StatusInv
  <2>3. cmd[p].number \in Number
    BY <2>2 DEF MakerInv
  <2>4. printed' = [printed EXCEPT ![x] = cmd[p].number] /\ UNCHANGED shown
    BY <1>8, <2>1 DEF Show
  <2>5. printed' \in [Path -> Number \cup {0}]
    BY <1>2, <2>3, <2>4
  <2>6. x \notin crossed => Report(x) = cmd[p].number
    BY <1>1, <1>8, <2>1, <2>2 DEF MakerInv, Written
  <2>7. \A y \in Path \ crossed : printed'[y] <= Report(y)
    <3> SUFFICES ASSUME NEW y \in Path \ crossed PROVE printed'[y] <= Report(y)
      OBVIOUS
    <3>1. CASE y = x
      <4>1. printed'[y] = Report(y) /\ Report(y) \in Nat
        BY <1>2, <2>4, <2>6, <3>1, Numbers
      <4> QED  BY <4>1
    <3>2. CASE y # x
      BY <1>2, <2>4, <3>2
    <3> QED  BY <3>1, <3>2
  <2>8. TypeOK'
    BY <1>1, <1>2, <1>5, <2>4, <2>5 DEF TypeOK, StoreTypeOK
  <2> QED  BY <1>1, <1>4, <1>5, <1>6, <1>7, <2>2, <2>4, <2>7, <2>8, CommandStep
<1>9. CASE cmd[p].step = "toolchains"
  <2>1. cmd[p].kind = "status" /\ StatusInv(p)
    BY <1>2, <1>9 DEF CommandInv, MakerInv
  <2>2. shown' = [shown EXCEPT ![p][Toolchains] = Newest(call[p].doc)] /\ UNCHANGED printed
    BY <1>9 DEF Show, Written
  <2>3. PICK n \in Number \cup {0} : n = Newest(call[p].doc)
    BY <1>1, ReadNumber, ReportPaths
  <2>4. PICK s : s = [shown[p] EXCEPT ![Toolchains] = n]
    OBVIOUS
  <2>5. /\ s \in [Path -> Number \cup {0}] /\ s[Toolchains] = n
        /\ s[Devices] = shown[p][Devices]
    BY <1>2, <2>4, ReportPaths
  <2>6. shown' = [shown EXCEPT ![p] = s]
    BY <2>2, <2>3, <2>4
  <2>7. /\ shown' \in [Proc -> [Path -> Number \cup {0}]] /\ shown'[p] = s
        /\ \A q \in Proc \ {p} : shown'[q] = shown[q]
    BY <1>2, <2>5, <2>6
  <2>8. /\ Devices \notin crossed => floor[p][Devices] <= s[Devices]
        /\ Toolchains \notin crossed => floor[p][Toolchains] <= s[Toolchains]
    BY <1>1, <1>9, <2>1, <2>3, <2>5 DEF StatusInv, Reading
  <2>9. \A y \in Path \ crossed : s[y] >= floor[p][y]
    <3> SUFFICES ASSUME NEW y \in Path \ crossed PROVE s[y] >= floor[p][y]
      OBVIOUS
    <3>1. y \in {Devices, Toolchains}
      BY StatusAssumption
    <3>2. floor[p][y] <= s[y]
      BY <2>8, <3>1
    <3> QED  BY <3>2
  <2>10. TypeOK'
    BY <1>1, <1>2, <1>5, <2>2, <2>7 DEF TypeOK, StoreTypeOK
  <2> QED  BY <1>1, <1>2, <1>5, <1>6, <1>7, <2>2, <2>7, <2>9, <2>10, CommandStep
<1> QED  BY <1>1, <1>8, <1>9

LEMMA FailInv ==
  ASSUME NEW p \in Proc, ReportInv, Fail(p)
  PROVE  ReportInv'
  BY EndInv DEF Fail, Raise, Ready, EndStage

LEMMA KillInv ==
  ASSUME NEW p \in Proc, ReportInv, Kill(p)
  PROVE  ReportInv'
<1>1. /\ KillCall(p) /\ cmd' = [cmd EXCEPT ![p] = NoCommand("idle")]
      /\ kills < MaxKills /\ kills' = kills + 1
      /\ UNCHANGED <<printed, shown, floor, crossed, commands>>
      /\ UNCHANGED <<file, tmp, content, overlapped>>
  BY DEF Kill, KillCall
<1>2. /\ StoreInv /\ TypeOK /\ call \in [Proc -> Call] /\ cmd \in [Proc -> Command]
      /\ overlapped \subseteq crossed
      /\ \A y \in Path \ crossed : y \in Path \ overlapped /\ printed[y] <= Report(y)
  BY ReportFacts
<1>3. NoCommand("idle") \in Command
  BY DEF NoCommand, Command, Over, Kind
<1>4. /\ cmd' \in [Proc -> Command] /\ cmd'[p] = NoCommand("idle")
      /\ \A q \in Proc \ {p} : cmd'[q] = cmd[q]
  BY <1>1, <1>2, <1>3
<1>5. /\ call'[p] = Idle /\ \A q \in Proc \ {p} : call'[q] = call[q]
  BY <1>1, <1>2 DEF KillCall
<1>6. StoreInv'
  BY <1>1, <1>2, KillCallInv
<1>7. TypeOK'
  <2>1. kills' \in 0..MaxKills
    BY <1>1, <1>2, StatusAssumption DEF TypeOK
  <2> QED  BY <1>1, <1>2, <1>4, <1>6, <2>1 DEF TypeOK, StoreInv
<1>8. PICK D : D = ReportsUpTo(commands)
  OBVIOUS
<1>9. ASSUME NEW y \in Path PROVE PathDocs(y, D)'
  <2>1. PathDocs(y, D) /\ {} \in D
    BY <1>8 DEF ReportInv, ReportsUpTo
  <2> QED  BY <1>1, <1>2, <2>1, KillCallDocs
<1>10. \A y : Report(y)' = Report(y)
  BY <1>1 DEF Report, Current, Missing
<1>11. cmd'[p].step = "idle" /\ "idle" \notin Active
  BY <1>4 DEF NoCommand, Active
<1>12. CommandInv(p)' /\ \A y : ~Making(p, y)'
  BY <1>5, <1>11 DEF CommandInv, Making, Ready, Idle, Ended, EndStage
<1>13. commands <= commands' /\ D = ReportsUpTo(commands')
  BY <1>1, <1>8, Numbers
<1> QED  BY <1>1, <1>2, <1>4, <1>5, <1>6, <1>7, <1>9, <1>10, <1>11, <1>12, <1>13, ReportStep

-----------------------------------------------------------------------------
LEMMA ReportInitInv == Init => ReportInv
<1> SUFFICES ASSUME Init PROVE ReportInv
  OBVIOUS
<1>1. StoreInv
  BY StoreInitInv DEF Init
<1>2. MaxCommands \in Nat /\ MaxKills \in Nat
  BY StatusAssumption
<1>3. \A s \in Over : NoCommand(s) \in Command
  BY DEF NoCommand, Command, Kind
<1>4. TypeOK
  BY <1>1, <1>2, <1>3 DEF Init, TypeOK, StoreInv, Over
<1>5. /\ overlapped = {} /\ crossed = {} /\ commands = 0
      /\ \A x \in Path : printed[x] = 0 /\ Current(x) = Missing
      /\ \A p \in Proc : cmd[p] = NoCommand("idle") /\ call[p] = Idle
  BY DEF Init, StoreInit, Current
<1>6. \A p \in Proc : cmd[p].step = "idle" /\ Ready(p)
  BY <1>5 DEF NoCommand, Ready, Idle, Ended, EndStage
<1>7. \A p \in Proc : CommandInv(p)
  BY <1>6 DEF CommandInv, Active
<1>8. \A p \in Proc : \A x : ~Making(p, x)
  BY <1>6 DEF Making, Active
<1>9. \A x \in Path : PathDocs(x, ReportsUpTo(commands))
  BY InitDocs DEF Init, ReportsUpTo
<1>10. \A x \in Path : Report(x) = 0
  BY <1>5 DEF Report, Newest, Missing
<1>11. \A x \in Path : printed[x] <= Report(x)
  BY <1>5, <1>10
<1>12. StatusFresh
  BY <1>6 DEF StatusFresh
<1> QED  BY <1>1, <1>4, <1>5, <1>7, <1>8, <1>9, <1>11, <1>12 DEF ReportInv

LEMMA ReportStepInv == ReportInv /\ [Next]_vars => ReportInv'
<1> SUFFICES ASSUME ReportInv, [Next]_vars PROVE ReportInv'
  OBVIOUS
<1>1. CASE UNCHANGED vars
  <2>1. UNCHANGED <<file, tmp, content, call, overlapped, cmd, printed, shown, floor,
                    crossed, commands, kills>>
    BY <1>1 DEF vars
  <2>2. StoreInv' /\ UNCHANGED storeVars
    BY <2>1, IdleStepInv DEF ReportInv, storeVars
  <2>3. \A x \in Path : PathDocs(x, ReportsUpTo(commands))'
    BY <2>1 DEF ReportInv, PathDocs, Holds
  <2>4. \A x : Report(x)' = Report(x)
    BY <2>2, SameReports
  <2>5. \A p \in Proc : CommandInv(p)'
    BY <2>1, <2>4 DEF ReportInv, CommandInv, MakerInv, StatusInv, Reading, Ready, Written,
                      ProgramsRun
  <2> QED  BY <2>1, <2>2, <2>3, <2>4, <2>5
           DEF ReportInv, TypeOK, StoreTypeOK, Making, StatusFresh
<1>2. CASE Next
  <2> SUFFICES ASSUME NEW p \in Proc,
                      (\E kind \in Kind : Begin(p, kind)) \/ Proceed(p) \/ Kill(p)
               PROVE  ReportInv'
    BY <1>2 DEF Next
  <2> QED  BY BeginInv, LaunchInv, AnswerInv, TimeOutInv, PublishInv, ReadDevicesInv,
              ReadToolchainsInv, StoreStepInv, ShowInv, FailInv, KillInv DEF Proceed
<1> QED  BY <1>1, <1>2

(* Of the commands that make reports of one path, one at a time and each   *)
(* with a greater number, the file of the path always holds the last that  *)
(* has written it: the invariant from which the next theorems follow.      *)
THEOREM ReportInvariant == Spec => []ReportInv
  BY ReportInitInv, ReportStepInv, PTL DEF Spec

(* `npu-ctrl status` shows reports at least as new as the newest that was  *)
(* printed before it began, whatever has failed, hung or been killed.      *)
THEOREM StatusShowsNewest == Spec => []StatusFresh
<1>1. ReportInv => StatusFresh
  BY DEF ReportInv
<1> QED  BY <1>1, ReportInvariant, PTL

(* devices.json and toolchains.json are whole while no two commands write  *)
(* the same one at once.                                                   *)
THEOREM StatusFilesWhole == Spec => []WholeUnlessOverlapped
<1>1. ReportInv => WholeUnlessOverlapped
  BY StoreInvWhole DEF ReportInv
<1> QED  BY <1>1, ReportInvariant, PTL

LEMMA WholeReportStep ==
  ASSUME ReportInv, [Next]_vars, NEW x \in Path \ crossed', Current(x)' # Current(x)
  PROVE  \E p \in Proc : /\ Making(p, x) /\ ProgramsRun(p) /\ cmd[p].text
                         /\ Current(x)' = Text({cmd[p].number})
<1>1. ~UNCHANGED storeVars
  BY DEF storeVars, Current, Missing
<1>2. PICK p \in Proc : (\E kind \in Kind : Begin(p, kind)) \/ Proceed(p) \/ Kill(p)
  BY <1>1 DEF Next, vars, storeVars
<1>3. ~UNCHANGED <<file, content>>
  BY DEF Current, Missing
<1>4. /\ StoreInv /\ CommandInv(p) /\ overlapped \subseteq crossed
  BY ReportFacts, <1>2
<1>5. x \in Path \ overlapped
  <2>1. crossed \subseteq crossed'
    BY <1>2 DEF Begin, Proceed, Launch, Answer, TimeOut, Publish, ReadDevices, ReadToolchains,
                StoreStep, Show, Fail, Kill, statusVars
  <2> QED  BY <1>4, <2>1
<1>6. Publish(p) \/ StoreStep(p)
  BY <1>2, <1>3 DEF Begin, Proceed, Launch, Answer, TimeOut, ReadDevices, ReadToolchains,
                    ReadFile, CheckExists, Show, Fail, Kill, KillCall, storeVars
<1>7. ~Publish(p)
  <2> SUFFICES ASSUME Publish(p) PROVE FALSE
    OBVIOUS
  <2>1. PICK y \in Path : \E d : OpenTmp(p, y, d)
    BY ReportPaths DEF Publish
  <2> QED  BY <1>4, <1>5, <2>1, OpenTmpFile
<1>8. CallStep(p)
  BY <1>6, <1>7 DEF StoreStep, CallStep
<1>9. /\ call[p].path = x /\ call[p].stage = "closed"
      /\ Current(x)' = Text(call[p].doc)
  BY <1>4, <1>5, <1>8, CallStepFile
<1>10. Making(p, x) /\ MakerInv(p) /\ cmd[p].step = "publish"
  BY <1>9, WriterMakes DEF Making, WriteStage
<1>11. call[p].doc = {cmd[p].number} /\ ProgramsRun(p) /\ cmd[p].text
  BY <1>9, <1>10 DEF MakerInv, WriteStage
<1> QED  BY <1>9, <1>10, <1>11

(* A discover or a probe that fails, hangs or is killed changes no report: *)
(* a report changes only to the whole one of a command that has run all of *)
(* its programs.                                                           *)
THEOREM StatusReportsWhole == Spec => OnlyWholeReports
<1>1. ReportInv /\ [Next]_vars =>
        [\A x \in Path \ crossed' : Current(x)' # Current(x) =>
           \E p \in Proc : /\ Making(p, x) /\ ProgramsRun(p) /\ cmd[p].text
                           /\ Current(x)' = Text({cmd[p].number})]_vars
  BY WholeReportStep
<1> QED  BY <1>1, ReportInvariant, PTL DEF Spec, OnlyWholeReports

(* devices.json and toolchains.json, once there, are never missing again,  *)
(* whatever is killed or crosses another command.                          *)
THEOREM StatusFilesStay == Spec => NeverVanishes
<1>1. ReportInv /\ [Next]_vars =>
        [\A x \in Path : file[x] # NoInode => file'[x] # NoInode]_storeVars
  <2> SUFFICES ASSUME ReportInv, [Next]_vars, NEW x \in Path, file[x] # NoInode,
                      file'[x] # file[x]
               PROVE  file'[x] # NoInode
    OBVIOUS
  <2>1. PICK p \in Proc : (\E kind \in Kind : Begin(p, kind)) \/ Proceed(p) \/ Kill(p)
    BY DEF Next, vars
  <2>2. StoreStep(p)
    BY <2>1 DEF Begin, Proceed, Launch, Answer, TimeOut, Publish, OpenTmp, ReadDevices,
                ReadToolchains, ReadFile, CheckExists, Show, Fail, Kill, KillCall, storeVars
  <2>3. CallStep(p) /\ StoreInv
    BY <2>2 DEF StoreStep, CallStep, ReportInv
  <2> QED  BY <2>3, CallStepKeepsFiles
<1> QED  BY <1>1, ReportInvariant, PTL DEF Spec, NeverVanishes
=============================================================================
