----------------------------- MODULE LogProofs -----------------------------
(***************************************************************************)
(* Safety of Log for any number of processes, blocks and log slots.        *)
(***************************************************************************)
EXTENDS Log, KListTheorems, FiniteSetTheorems

\* Who is where: a changed block belongs to a running operation that can
\* still log it, and whoever commits does so alone.
CtlInv ==
    /\ \A o \in Ops : own[o] # None =>
          pc[o] = "run" /\ (own[o] \in Members(header) \/ rm[o] > 0)
    /\ \A o \in Ops : rm[o] <= OpMax
    /\ committing <=> \E o \in Ops : pc[o] = "commit"
    /\ \A o, q \in Ops : pc[o] = "commit" /\ pc[q] = "commit" => o = q
    /\ committing => \A o \in Ops : pc[o] # "run"
    /\ phase \in {"copy", "install"} => committing
    /\ phase \in {"boot", "recover"} => \A o \in Ops : pc[o] = "idle"
    /\ phase = "boot" => header = <<>>
    /\ phase \in {"copy", "install", "recover"} => tail <= Len(header)
    /\ phase = "copy" => tail <= LogSlots

\* The space argument of begin_op: what is logged and what is promised to
\* the running operations fits.
SpaceInv ==
    /\ outstanding = Cardinality(Running)
    /\ Len(header) + Cardinality(Promised) <= LogMax
    /\ Len(hdr) <= LogMax /\ Len(hdr) <= LogSlots

\* What is listed, pinned and on the device, phase by phase.
ListInv ==
    /\ Distinct(header) /\ Distinct(hdr)
    /\ phase \in {"free", "copy"} => hdr = <<>> /\ pinned = Members(header)
    /\ phase = "install" => pinned = {header[i] : i \in tail + 1 .. Len(header)}
    /\ phase \in {"install", "recover"} => hdr = header
    /\ phase \in {"boot", "recover"} => pinned = {}

IInv == TypeOK /\ CtlInv /\ SpaceInv /\ ListInv

-----------------------------------------------------------------------------
(* Lemmas about the sets that are counted. *)

LEMMA SetsAreFinite == IsFiniteSet(Running) /\ IsFiniteSet(Promised)
<1>1. IsFiniteSet(Running) /\ Running \in SUBSET Ops
  BY OpsAssumption, FS_Subset DEF Running
<1>2. IsFiniteSet(1 .. OpMax)
  BY SizeAssumption, FS_Interval
<1>3. IsFiniteSet(Ops \X (1 .. OpMax))
  BY <1>2, OpsAssumption, FS_Product
<1>4. Promised \in SUBSET (Ops \X (1 .. OpMax))
  BY DEF Promised
<1>5. IsFiniteSet(Promised)
  BY <1>3, <1>4, FS_Subset
<1> QED BY <1>1, <1>5

\* Every operation that runs has at most OP_MAX_NUM_BLOCKS blocks to come.
LEMMA PromisedBound == Cardinality(Promised) <= Cardinality(Running) * OpMax
<1>1. IsFiniteSet(1 .. OpMax) /\ Cardinality(1 .. OpMax) = OpMax
  BY SizeAssumption, FS_Interval
<1>2. IsFiniteSet(Running)
  BY SetsAreFinite
<1>3. /\ IsFiniteSet(Running \X (1 .. OpMax))
      /\ Cardinality(Running \X (1 .. OpMax)) = Cardinality(Running) * OpMax
  BY <1>1, <1>2, FS_Product
<1>4. Promised \in SUBSET (Running \X (1 .. OpMax))
  BY DEF Promised, Running
<1> QED BY <1>3, <1>4, FS_Subset

-----------------------------------------------------------------------------
(* Initiation and consecution, part by part. *)

LEMMA InitIInv == Init => IInv
<1> SUFFICES ASSUME Init PROVE IInv
  OBVIOUS
<1>1. TypeOK
  <2>1. committing \in BOOLEAN /\ deaf \in BOOLEAN /\ broken \in BOOLEAN
    BY DEF Init
  <2> QED BY <2>1, ContentAssumption, SizeAssumption DEF Init, TypeOK
<1>2. CtlInv
  BY SizeAssumption DEF Init, CtlInv
<1>3. SpaceInv
  <2>1. Running = {} /\ Promised = {}
    BY DEF Init, Running, Promised
  <2> QED BY <2>1, FS_EmptySet, SizeAssumption DEF Init, SpaceInv
<1>4. ListInv
  BY EmptyFacts DEF Init, ListInv
<1> QED BY <1>1, <1>2, <1>3, <1>4 DEF IInv

\* The steps that end a turn: how they change pc.
LEMMA PostAllFacts ==
    ASSUME TypeOK, NEW o \in Ops, PostAll(o, "idle")
    PROVE  /\ pc' \in [Ops -> {"idle", "begin", "wait", "asleep", "run", "commit"}]
           /\ val' \in Int
           /\ pc'[o] = "idle"
           /\ \A q \in Ops \ {o} : \A l \in {"run", "commit"} : pc'[q] = l <=> pc[q] = l
           /\ \A q \in Ops : pc[q] = "idle" => pc'[q] = "idle"
  BY DEF TypeOK, PostAll

LEMMA CtlStep == ASSUME IInv, LogStep \/ Crash PROVE CtlInv'
<1> USE DEF IInv, device, cache, log
<1>1. ASSUME NEW o \in Ops, CallBegin(o) PROVE CtlInv'
  BY <1>1 DEF TypeOK, CtlInv, CallBegin
<1>2. ASSUME NEW o \in Ops, BeginOp(o) PROVE CtlInv'
  <2>1. CASE committing \/ LogFull
    BY <1>2, <2>1 DEF TypeOK, CtlInv, BeginOp
  <2>2. CASE ~ committing /\ ~ LogFull
    <3>1. /\ pc' = [pc EXCEPT ![o] = "run"] /\ rm' = [rm EXCEPT ![o] = OpMax]
          /\ UNCHANGED <<own, header, committing, phase, tail>>
          /\ pc[o] = "begin" /\ phase = "free"
      BY <1>2, <2>2 DEF BeginOp
    <3>2. \A q \in Ops : rm'[q] <= OpMax
      BY <3>1, SizeAssumption DEF TypeOK, CtlInv
    <3>3. \A q \in Ops : own'[q] # None =>
             pc'[q] = "run" /\ (own'[q] \in Members(header') \/ rm'[q] > 0)
      BY <3>1 DEF TypeOK, CtlInv
    <3> QED BY <2>2, <3>1, <3>2, <3>3 DEF TypeOK, CtlInv
  <2> QED BY <2>1, <2>2
<1>3. ASSUME NEW o \in Ops, WaitLog(o) PROVE CtlInv'
  BY <1>3 DEF TypeOK, CtlInv, WaitLog
<1>4. ASSUME NEW o \in Ops, NEW b \in Blocks, NEW v \in Vals, Write(o, b, v) PROVE CtlInv'
  BY <1>4 DEF TypeOK, CtlInv, Write
<1>5. ASSUME NEW o \in Ops, Sync(o) PROVE CtlInv'
  <2>1. own[o] \in Blocks /\ header \in Seq(Blocks)
    BY <1>5 DEF TypeOK, Sync
  <2>2. CASE own[o] \in Members(header)
    BY <1>5, <2>2 DEF TypeOK, CtlInv, Sync
  <2>3. CASE own[o] \notin Members(header)
    <3>1. header' = Append(header, own[o]) /\ rm' = [rm EXCEPT ![o] = @ - 1]
      BY <1>5, <2>3 DEF Sync
    <3>2. Members(header') = Members(header) \cup {own[o]} /\ Len(header') = Len(header) + 1
      BY <2>1, <2>3, <3>1, AppendFacts DEF ListInv
    <3>3. /\ own' = [own EXCEPT ![o] = None] /\ phase = "free"
          /\ UNCHANGED <<committing, phase, tail, pc>>
      BY <1>5 DEF Sync
    <3>4. \A q \in Ops : rm'[q] <= OpMax
      BY <3>1, SizeAssumption DEF TypeOK, CtlInv
    <3>5. \A q \in Ops : own'[q] # None =>
             pc'[q] = "run" /\ (own'[q] \in Members(header') \/ rm'[q] > 0)
      BY <3>1, <3>2, <3>3 DEF TypeOK, CtlInv
    <3> QED BY <3>3, <3>4, <3>5 DEF CtlInv
  <2> QED BY <2>2, <2>3
<1>6. ASSUME NEW o \in Ops, EndOp(o) PROVE CtlInv'
  <2>1. CASE outstanding = 1
    <3>1. Running = {o}
      <4>1. IsFiniteSet(Running) /\ Cardinality(Running) = 1
        BY <2>1, SetsAreFinite DEF SpaceInv
      <4>2. PICK x : Running = {x}
        BY <4>1, FS_Singleton
      <4> QED BY <1>6, <4>2 DEF EndOp, Running
    <3>2. \A q \in Ops : pc[q] = "run" => q = o
      BY <3>1 DEF Running
    <3> QED BY <1>6, <2>1, <3>2 DEF TypeOK, CtlInv, EndOp
  <2>2. CASE outstanding # 1
    BY <1>6, <2>2, PostAllFacts DEF TypeOK, CtlInv, EndOp
  <2> QED BY <2>1, <2>2
<1>7. ASSUME NEW o \in Ops, StartCommit(o) PROVE CtlInv'
  BY <1>7, SizeAssumption DEF TypeOK, CtlInv, StartCommit
<1>8. ASSUME NEW o \in Ops, FinishCommit(o) PROVE CtlInv'
  BY <1>8, PostAllFacts DEF TypeOK, CtlInv, FinishCommit
<1>9. CASE CopyToLog
  BY <1>9 DEF TypeOK, CtlInv, CopyToLog
<1>10. CASE WriteHeader
  BY <1>10 DEF TypeOK, CtlInv, WriteHeader
<1>11. CASE Install
  BY <1>11 DEF TypeOK, CtlInv, Install
<1>12. ASSUME NEW b \in Blocks, ReadBlock(b) \/ SyncNow(b) \/ Evict(b) PROVE CtlInv'
  BY <1>12 DEF CtlInv, ReadBlock, SyncNow, Evict
<1>13. CASE Crash
  BY <1>13, SizeAssumption DEF CtlInv, Crash
<1>14. CASE ReadHeader
  BY <1>14 DEF TypeOK, CtlInv, ReadHeader
<1>15. CASE Recover
  BY <1>15 DEF TypeOK, CtlInv, Recover
<1>16. CASE FinishRecovery
  BY <1>16 DEF TypeOK, CtlInv, FinishRecovery
<1> QED
  BY <1>1, <1>2, <1>3, <1>4, <1>5, <1>6, <1>7, <1>8, <1>9, <1>10, <1>11, <1>12,
     <1>13, <1>14, <1>15, <1>16 DEF LogStep, OpStep

LEMMA TypeStep ==
    ASSUME IInv, LogStep \/ Crash, deaf' \in BOOLEAN, broken' \in BOOLEAN
    PROVE  TypeOK'
<1> USE DEF IInv, device, cache, log
<1> DEFINE Places == {"idle", "begin", "wait", "asleep", "run", "commit"}
<1>1. ASSUME NEW b \in Blocks PROVE Content(b) \in Vals
  BY DEF TypeOK, Content
<1>2. ASSUME NEW o \in Ops, CallBegin(o) PROVE TypeOK'
  BY <1>2 DEF TypeOK, CallBegin
<1>3. ASSUME NEW o \in Ops, BeginOp(o) PROVE TypeOK'
  <2>1. CASE committing \/ LogFull
    BY <1>3, <2>1 DEF TypeOK, BeginOp
  <2>2. CASE ~ (committing \/ LogFull)
    <3>1. /\ pc' = [pc EXCEPT ![o] = "run"] /\ rm' = [rm EXCEPT ![o] = OpMax]
          /\ outstanding' = outstanding + 1
      BY <1>3, <2>2 DEF BeginOp
    <3>2. rm' \in [Ops -> Nat] /\ outstanding' \in Nat
      BY <3>1, SizeAssumption DEF TypeOK
    <3> QED BY <1>3, <3>1, <3>2 DEF TypeOK, BeginOp
  <2> QED BY <2>1, <2>2
<1>4. ASSUME NEW o \in Ops, WaitLog(o) PROVE TypeOK'
  BY <1>4 DEF TypeOK, WaitLog
<1>5. ASSUME NEW o \in Ops, NEW b \in Blocks, NEW v \in Vals, Write(o, b, v) PROVE TypeOK'
  BY <1>5 DEF TypeOK, Write
<1>6. ASSUME NEW o \in Ops, Sync(o) PROVE TypeOK'
  <2>1. own[o] \in Blocks /\ header \in Seq(Blocks) /\ rm[o] \in Nat
    BY <1>6 DEF TypeOK, Sync
  <2>2. header' \in Seq(Blocks)
    BY <1>6, <2>1 DEF Sync
  <2>3. rm' \in [Ops -> Nat]
    BY <1>6, <2>1 DEF TypeOK, Sync, CtlInv
  <2> QED BY <1>6, <2>1, <2>2, <2>3 DEF TypeOK, Sync
<1>7. ASSUME NEW o \in Ops, EndOp(o) PROVE TypeOK'
  <2>1. outstanding - 1 \in Nat
    <3>1. o \in Running /\ IsFiniteSet(Running)
      BY <1>7, SetsAreFinite DEF EndOp, Running
    <3>2. Cardinality(Running) # 0 /\ Cardinality(Running) \in Nat
      BY <3>1, FS_EmptySet, FS_CardinalityType
    <3> QED BY <3>2 DEF SpaceInv
  <2>2. CASE outstanding = 1
    <3>1. committing' \in BOOLEAN
      BY <1>7, <2>2 DEF EndOp
    <3> QED BY <1>7, <2>1, <2>2, <3>1 DEF TypeOK, EndOp
  <2>3. CASE outstanding # 1
    BY <1>7, <2>1, <2>3, PostAllFacts DEF TypeOK, EndOp
  <2> QED BY <2>2, <2>3
<1>8. ASSUME NEW o \in Ops, StartCommit(o) PROVE TypeOK'
  BY <1>8 DEF TypeOK, StartCommit
<1>9. ASSUME NEW o \in Ops, FinishCommit(o) PROVE TypeOK'
  <2>1. committing' \in BOOLEAN
    BY <1>9 DEF FinishCommit
  <2> QED BY <1>9, <2>1, PostAllFacts DEF TypeOK, FinishCommit
<1>10. CASE CopyToLog
  <2>1. header[tail + 1] \in Blocks
    BY <1>10 DEF TypeOK, CopyToLog
  <2>2. logd' \in [1 .. LogSlots -> Vals]
    BY <1>1, <1>10, <2>1 DEF TypeOK, CopyToLog
  <2> QED BY <1>10, <2>2 DEF TypeOK, CopyToLog
<1>11. CASE WriteHeader
  BY <1>11 DEF TypeOK, WriteHeader
<1>12. CASE Install \/ Recover
  <2>1. header[tail + 1] \in Blocks /\ tail + 1 \in 1 .. Len(header)
    BY <1>12 DEF TypeOK, Install, Recover
  <2>2. Len(header) <= LogSlots
    BY <1>12 DEF SpaceInv, ListInv, Install, Recover
  <2>3. logd[tail + 1] \in Vals
    BY <2>1, <2>2, SizeAssumption DEF TypeOK
  <2>4. /\ disk' = [disk EXCEPT ![header[tail + 1]] = logd[tail + 1]]
        /\ mem' = [mem EXCEPT ![header[tail + 1]] = logd[tail + 1]]
    BY <1>12 DEF Install, Recover
  <2>5. disk' \in [Blocks -> Vals] /\ mem' \in [Blocks -> Vals \cup {NoVal}]
    BY <2>1, <2>3, <2>4 DEF TypeOK
  <2> QED BY <1>12, <2>5 DEF TypeOK, Install, Recover
<1>13. ASSUME NEW b \in Blocks, ReadBlock(b) \/ SyncNow(b) \/ Evict(b) PROVE TypeOK'
  BY <1>1, <1>13 DEF TypeOK, ReadBlock, SyncNow, Evict
<1>14. CASE Crash
  <2>1. committing' \in BOOLEAN
    BY <1>14 DEF Crash
  <2> QED BY <1>14, <2>1 DEF TypeOK, Crash
<1>15. CASE ReadHeader
  BY <1>15 DEF TypeOK, ReadHeader
<1>16. CASE FinishRecovery
  BY <1>16 DEF TypeOK, FinishRecovery
<1> QED
  BY <1>2, <1>3, <1>4, <1>5, <1>6, <1>7, <1>8, <1>9, <1>10, <1>11, <1>12, <1>13,
     <1>14, <1>15, <1>16 DEF LogStep, OpStep

LEMMA SpaceStep == ASSUME IInv, LogStep \/ Crash PROVE SpaceInv'
<1> USE DEF IInv, device, cache, log
<1>0. /\ IsFiniteSet(Running) /\ IsFiniteSet(Promised)
      /\ Cardinality(Running) \in Nat /\ Cardinality(Promised) \in Nat
      /\ Len(header) \in Nat
  BY SetsAreFinite, FS_CardinalityType DEF TypeOK
<1>1. ASSUME Running' = Running, Promised' = Promised, UNCHANGED <<outstanding, header, hdr>>
      PROVE  SpaceInv'
  BY <1>1 DEF SpaceInv
<1>2. ASSUME NEW o \in Ops, BeginOp(o) PROVE SpaceInv'
  <2>1. CASE committing \/ LogFull
    BY <1>1, <1>2, <2>1 DEF TypeOK, BeginOp, Running, Promised
  <2>2. CASE ~ committing /\ ~ LogFull
    <3>1. /\ pc' = [pc EXCEPT ![o] = "run"] /\ pc[o] = "begin"
          /\ outstanding' = outstanding + 1
          /\ UNCHANGED <<header, hdr>>
      BY <1>2, <2>2 DEF BeginOp
    <3>2. Running' = Running \cup {o} /\ o \notin Running
      BY <3>1 DEF TypeOK, Running
    <3>3. Cardinality(Running') = Cardinality(Running) + 1
      BY <1>0, <3>2, FS_AddElement
    <3>4. (Cardinality(Promised) <= Cardinality(Running) * OpMax)'
      BY PromisedBound, PTL
    <3>5. (IsFiniteSet(Running) /\ IsFiniteSet(Promised))'
      BY SetsAreFinite, PTL
    <3>6. Cardinality(Promised') \in Nat
      BY <3>5, FS_CardinalityType
    <3>7. Len(header) + (outstanding + 1) * OpMax <= LogMax
      BY <2>2, <1>0, SizeAssumption DEF LogFull, TypeOK
    <3>8. Len(header') + Cardinality(Promised') <= LogMax
      <4>1. Cardinality(Running') * OpMax = (outstanding + 1) * OpMax
        BY <3>3 DEF SpaceInv
      <4>2. (outstanding + 1) * OpMax \in Nat
        BY SizeAssumption DEF TypeOK
      <4> HIDE DEF IInv
      <4> QED BY <1>0, <3>1, <3>4, <3>6, <3>7, <4>1, <4>2, SizeAssumption
    <3> QED BY <3>1, <3>3, <3>8 DEF SpaceInv
  <2> QED BY <2>1, <2>2
<1>3. ASSUME NEW o \in Ops, Sync(o) PROVE SpaceInv'
  <2>1. Running' = Running /\ UNCHANGED <<outstanding, hdr, pc>>
    BY <1>3 DEF Sync, Running
  <2>2. CASE own[o] \in Members(header)
    <3>1. Promised' = Promised
      BY <1>3, <2>2 DEF Sync, Promised
    <3> QED BY <1>1, <1>3, <2>1, <2>2, <3>1 DEF Sync
  <2>3. CASE own[o] \notin Members(header)
    <3>1. /\ rm[o] \in 1 .. OpMax /\ pc[o] = "run" /\ own[o] \in Blocks
          /\ rm' = [rm EXCEPT ![o] = @ - 1]
      BY <1>3, <2>3, SizeAssumption DEF TypeOK, Sync, CtlInv
    <3>2. <<o, rm[o]>> \in Promised
      BY <3>1 DEF Promised
    <3>3. Promised' = Promised \ {<<o, rm[o]>>}
      BY <2>1, <3>1, SizeAssumption DEF TypeOK, Promised
    <3>4. Cardinality(Promised') = Cardinality(Promised) - 1
      BY <1>0, <3>2, <3>3, FS_RemoveElement
    <3>5. Len(header') = Len(header) + 1
      <4>1. header' = Append(header, own[o])
        BY <1>3, <2>3 DEF Sync
      <4> QED BY <3>1, <4>1 DEF TypeOK
    <3> QED BY <1>0, <2>1, <3>4, <3>5, SizeAssumption DEF SpaceInv
  <2> QED BY <2>2, <2>3
<1>4. ASSUME NEW o \in Ops, EndOp(o) PROVE SpaceInv'
  <2>1. /\ outstanding' = outstanding - 1 /\ UNCHANGED <<header, hdr, rm>>
        /\ pc[o] = "run" /\ pc'[o] # "run"
        /\ \A q \in Ops \ {o} : pc'[q] = "run" <=> pc[q] = "run"
    <3>1. CASE outstanding = 1
      BY <1>4, <3>1 DEF EndOp, TypeOK
    <3>2. CASE outstanding # 1
      BY <1>4, <3>2, PostAllFacts DEF EndOp
    <3> QED BY <3>1, <3>2
  <2>2. Running' = Running \ {o} /\ o \in Running
    BY <2>1 DEF Running
  <2>3. Cardinality(Running') = Cardinality(Running) - 1
    BY <1>0, <2>2, FS_RemoveElement
  <2>4. Promised' \in SUBSET Promised
    BY <2>1 DEF Promised
  <2>5. Cardinality(Promised') <= Cardinality(Promised) /\ IsFiniteSet(Promised')
    BY <1>0, <2>4, FS_Subset
  <2>6. Cardinality(Promised') \in Nat
    BY <2>5, FS_CardinalityType
  <2> QED BY <1>0, <2>1, <2>3, <2>5, <2>6, SizeAssumption DEF SpaceInv
<1>5. ASSUME NEW o \in Ops, FinishCommit(o) PROVE SpaceInv'
  <2>1. /\ header' = <<>> /\ hdr' = <<>> /\ UNCHANGED <<outstanding, rm>>
        /\ \A q \in Ops : pc'[q] = "run" <=> pc[q] = "run"
    BY <1>5, PostAllFacts DEF FinishCommit
  <2>2. Running' = Running /\ Promised' = Promised
    BY <2>1 DEF Running, Promised
  <2> QED BY <1>0, <2>1, <2>2, SizeAssumption DEF SpaceInv
<1>6. CASE Crash \/ ReadHeader
  <2>1. Running' = {} /\ Promised' = {}
    BY <1>6 DEF Crash, ReadHeader, CtlInv, Running, Promised
  <2>2. Cardinality(Running') = 0 /\ Cardinality(Promised') = 0
    BY <2>1, FS_EmptySet
  <2>3. outstanding' = 0
    <3>1. CASE Crash
      BY <3>1 DEF Crash
    <3>2. CASE ReadHeader
      <4>1. Running = {} /\ outstanding' = outstanding
        BY <3>2 DEF ReadHeader, CtlInv, Running
      <4> QED BY <4>1, FS_EmptySet DEF SpaceInv
    <3> QED BY <1>6, <3>1, <3>2
  <2>4. Len(header') <= LogMax /\ Len(header') \in Nat /\ hdr' = hdr
    BY <1>6, SizeAssumption DEF Crash, ReadHeader, SpaceInv, TypeOK
  <2> QED BY <2>2, <2>3, <2>4, SizeAssumption DEF SpaceInv
<1>7. CASE WriteHeader \/ FinishRecovery
  <2>1. Running' = Running /\ Promised' = Promised /\ outstanding' = outstanding
    BY <1>7 DEF WriteHeader, FinishRecovery, Running, Promised
  <2>2. /\ Len(header') <= Len(header) /\ Len(header') \in Nat
        /\ Len(hdr') <= Len(header) /\ Len(hdr') <= LogSlots
    BY <1>7, <1>0, SizeAssumption DEF WriteHeader, FinishRecovery, CtlInv
  <2>3. Len(header) <= LogMax
    BY <1>0, SizeAssumption DEF SpaceInv
  <2>4. Len(hdr') \in Nat
    BY <1>7, <1>0 DEF WriteHeader, FinishRecovery
  <2> QED BY <1>0, <2>1, <2>2, <2>3, <2>4, SizeAssumption DEF SpaceInv
<1>8. ASSUME NEW o \in Ops,
             \/ CallBegin(o) \/ WaitLog(o) \/ StartCommit(o)
             \/ \E b \in Blocks, v \in Vals : Write(o, b, v)
      PROVE  SpaceInv'
  <2>1. UNCHANGED <<outstanding, header, hdr, rm>>
    BY <1>8 DEF CallBegin, WaitLog, StartCommit, Write
  <2>2. \A q \in Ops : pc'[q] = "run" <=> pc[q] = "run"
    BY <1>8 DEF CallBegin, WaitLog, StartCommit, Write, TypeOK
  <2> QED BY <1>1, <2>1, <2>2 DEF Running, Promised
<1>9. CASE \/ CopyToLog \/ Install \/ Recover
           \/ \E b \in Blocks : ReadBlock(b) \/ SyncNow(b) \/ Evict(b)
  <2>1. UNCHANGED <<outstanding, header, hdr, rm, pc>>
    BY <1>9 DEF CopyToLog, Install, Recover, ReadBlock, SyncNow, Evict
  <2> QED BY <1>1, <2>1 DEF Running, Promised
<1> QED
  BY <1>2, <1>3, <1>4, <1>5, <1>6, <1>7, <1>8, <1>9 DEF LogStep, OpStep

LEMMA ListStep == ASSUME IInv, LogStep \/ Crash PROVE ListInv'
<1> USE DEF IInv, device, cache, log
<1>1. ASSUME NEW o \in Ops, Sync(o) PROVE ListInv'
  <2>1. own[o] \in Blocks /\ header \in Seq(Blocks)
    BY <1>1 DEF TypeOK, Sync
  <2>2. CASE own[o] \in Members(header)
    BY <1>1, <2>2 DEF ListInv, Sync
  <2>3. CASE own[o] \notin Members(header)
    <3>1. header' = Append(header, own[o])
      BY <1>1, <2>3 DEF Sync
    <3>2. Members(header') = Members(header) \cup {own[o]} /\ Distinct(header')
      BY <2>1, <2>3, <3>1, AppendFacts DEF ListInv
    <3> QED BY <1>1, <3>2 DEF ListInv, Sync
  <2> QED BY <2>2, <2>3
<1>2. ASSUME NEW o \in Ops, EndOp(o) PROVE ListInv'
  BY <1>2 DEF ListInv, EndOp
<1>3. ASSUME NEW o \in Ops, FinishCommit(o) PROVE ListInv'
  <2>1. tail = Len(header)
    BY <1>3 DEF FinishCommit
  <2>2. pinned = {}
    BY <1>3, <2>1 DEF ListInv, FinishCommit, TypeOK
  <2> QED BY <1>3, <2>2, EmptyFacts DEF ListInv, FinishCommit
<1>4. CASE WriteHeader
  <2>1. Members(header) = {header[i] : i \in 1 .. Len(header)}
    <3>1. DOMAIN header = 1 .. Len(header)
      BY DEF TypeOK
    <3> QED BY <3>1 DEF Members
  <2>2. tail' = 0 /\ header' = header /\ pinned' = pinned /\ pinned = Members(header)
    BY <1>4 DEF WriteHeader, ListInv
  <2>3. pinned' = {header'[i] : i \in tail' + 1 .. Len(header')}
    BY <2>1, <2>2
  <2> QED BY <1>4, <2>3 DEF ListInv, WriteHeader
<1>5. CASE Install
  <2>1. /\ header' = header /\ tail' = tail + 1 /\ phase' = "install"
        /\ pinned' = pinned \ {header[tail + 1]}
        /\ pinned = {header[i] : i \in tail + 1 .. Len(header)}
        /\ tail \in Nat /\ tail < Len(header)
    BY <1>5 DEF Install, ListInv, TypeOK
  <2>2. \A i \in tail + 2 .. Len(header) : header[i] # header[tail + 1]
    BY <2>1 DEF ListInv, Distinct, TypeOK
  <2> DEFINE Rest == {header[i] : i \in tail + 2 .. Len(header)}
  <2>3. pinned' = Rest
    <3>1. \A i \in tail + 1 .. Len(header) : i = tail + 1 \/ i \in tail + 2 .. Len(header)
      BY <2>1 DEF TypeOK
    <3>2. pinned' \subseteq Rest
      BY <2>1, <3>1
    <3>3. tail + 2 .. Len(header) \subseteq tail + 1 .. Len(header)
      BY <2>1 DEF TypeOK
    <3>4. Rest \subseteq pinned'
      BY <2>1, <2>2, <3>3
    <3> QED BY <3>2, <3>4
  <2> QED BY <1>5, <2>1, <2>3 DEF ListInv, Install
<1>6. CASE Crash \/ ReadHeader \/ FinishRecovery
  BY <1>6, EmptyFacts DEF ListInv, Crash, ReadHeader, FinishRecovery
<1>7. CASE Recover
  BY <1>7 DEF ListInv, Recover
<1>8. ASSUME NEW o \in Ops,
             \/ CallBegin(o) \/ BeginOp(o) \/ WaitLog(o) \/ StartCommit(o)
             \/ \E b \in Blocks, v \in Vals : Write(o, b, v)
      PROVE  ListInv'
  BY <1>8 DEF ListInv, CallBegin, BeginOp, WaitLog, StartCommit, Write
<1>9. CASE CopyToLog \/ \E b \in Blocks : ReadBlock(b) \/ SyncNow(b) \/ Evict(b)
  BY <1>9 DEF ListInv, CopyToLog, ReadBlock, SyncNow, Evict
<1> QED
  BY <1>1, <1>2, <1>3, <1>4, <1>5, <1>6, <1>7, <1>8, <1>9 DEF LogStep, OpStep

\* The steps that only say where the kernel stops.
FlagStep == UNCHANGED <<disk, logd, hdr, mem, pinned, header, outstanding, committing, val,
                        phase, tail, pc, rm, own>>

LEMMA NextCases ==
    ASSUME TypeOK, [Next]_vars
    PROVE  /\ LogStep \/ Crash \/ FlagStep
           /\ deaf' \in BOOLEAN /\ broken' \in BOOLEAN
<1> USE DEF device, cache, log, FlagStep
<1>0. deaf \in BOOLEAN /\ broken \in BOOLEAN
  BY DEF TypeOK
<1>1. CASE LogStep /\ UNCHANGED <<deaf, broken>>
  BY <1>0, <1>1
<1>2. ASSUME NEW o \in Ops, Spin(o)
      PROVE  FlagStep /\ deaf' \in BOOLEAN /\ broken' \in BOOLEAN
  BY <1>0, <1>2 DEF Spin
<1>3. CASE Overrun
  BY <1>0, <1>3 DEF Overrun
<1>4. ASSUME NEW b \in Blocks, Split(b)
      PROVE  FlagStep /\ deaf' \in BOOLEAN /\ broken' \in BOOLEAN
  BY <1>0, <1>4 DEF Split
<1>5. CASE Crash
  BY <1>0, <1>5 DEF Crash
<1>6. CASE UNCHANGED vars
  BY <1>0, <1>6 DEF vars
<1> QED BY <1>1, <1>2, <1>3, <1>4, <1>5, <1>6 DEF Next

\* The invariant is inductive and holds in every reachable state.
THEOREM Invariance == Spec => []IInv
<1>1. Init => IInv
  BY InitIInv
<1>2. IInv /\ [Next]_vars => IInv'
  <2> SUFFICES ASSUME IInv, [Next]_vars PROVE IInv'
    OBVIOUS
  <2>0. /\ LogStep \/ Crash \/ FlagStep
        /\ deaf' \in BOOLEAN /\ broken' \in BOOLEAN
    BY NextCases DEF IInv
  <2>1. CASE LogStep \/ Crash
    BY <2>0, <2>1, TypeStep, CtlStep, SpaceStep, ListStep DEF IInv
  <2>2. CASE FlagStep
    <3> USE DEF FlagStep
    <3>1. TypeOK'
      BY <2>0, <2>2 DEF IInv, TypeOK
    <3>2. CtlInv' /\ ListInv'
      BY <2>2 DEF IInv, CtlInv, ListInv
    <3>3. SpaceInv'
      BY <2>2 DEF IInv, SpaceInv, Running, Promised
    <3> QED BY <3>1, <3>2, <3>3 DEF IInv
  <2> QED BY <2>0, <2>1, <2>2
<1> QED BY <1>1, <1>2, PTL DEF Spec

\* The variables of the cache and the log stay in their types; ctx->rm and
\* log.outstanding never go below zero.
THEOREM TypeCorrect == Spec => []TypeOK
<1>1. IInv => TypeOK
  BY DEF IInv
<1> QED BY <1>1, Invariance, PTL

\* begin_op admits operations in such a way that header.block_no never runs
\* over: what is listed and what is still promised fits, and no sync meets the
\* assertion on ctx->rm.
THEOREM TheLogFits == Spec => []LogFits
<1>1. IInv => LogFits
  BY DEF IInv, CtlInv, SpaceInv, LogFits
<1> QED BY <1>1, Invariance, PTL

\* Only one process commits, and nobody runs an operation meanwhile.
THEOREM CommitExcludesOperations == Spec => []CommitIsExclusive
<1>1. IInv => CommitIsExclusive
  <2> SUFFICES ASSUME IInv PROVE CommitIsExclusive
    OBVIOUS
  <2>1. outstanding = Cardinality(Running)
    BY DEF IInv, SpaceInv
  <2>2. committing \/ phase \in {"copy", "install"} =>
           outstanding = 0 /\ \A o \in Ops : own[o] = None
    <3>1. committing => Running = {}
      BY DEF IInv, CtlInv, Running
    <3> QED BY <2>1, <3>1, FS_EmptySet DEF IInv, CtlInv
  <2> QED BY <2>1, <2>2 DEF IInv, CtlInv, CommitIsExclusive, Running
<1> QED BY <1>1, Invariance, PTL

\* Exactly the blocks that still have to be installed are pinned.
THEOREM PinnedAreTheLogged == Spec => []PinnedAreLogged
<1>1. IInv => PinnedAreLogged
  BY DEF IInv, ListInv, PinnedAreLogged
<1> QED BY <1>1, Invariance, PTL

-----------------------------------------------------------------------------
(* Log implements AtomicStore, whose leaky blocks are those that readers     *)
(* sync with ctx = NULL, for any number of processes, blocks and log slots. *)

\* Where the current content of a block is, phase by phase.
DataInv ==
    /\ phase \in {"free", "copy", "install"} =>
          \A b \in Blocks : b \notin Members(header) /\ Unowned(b) => Content(b) = disk[b]
    /\ phase = "copy" => \A i \in 1 .. tail : logd[i] = Content(header[i])
    /\ phase = "install" => \A i \in 1 .. Len(header) : logd[i] = Content(header[i])
    /\ phase \in {"install", "recover"} => \A i \in 1 .. tail : disk[header[i]] = logd[i]
    /\ phase \in {"boot", "recover"} => \A b \in Blocks : Content(b) = disk[b]

RInv == IInv /\ DataInv

LEMMA ContentType ==
    ASSUME TypeOK
    PROVE  \A b \in Blocks : Content(b) \in Vals
  BY DEF TypeOK, Content

LEMMA HeaderFacts ==
    ASSUME IInv
    PROVE  /\ Len(header) \in Nat /\ Len(header) <= LogMax
           /\ phase \in {"install", "recover"} => Len(header) <= LogSlots
           /\ Len(hdr) \in Nat /\ Len(hdr) <= LogMax
           /\ DOMAIN header = 1 .. Len(header) /\ DOMAIN hdr = 1 .. Len(hdr)
           /\ \A i \in 1 .. Len(header) : header[i] \in Blocks
           /\ tail \in Nat
<1>1. Cardinality(Promised) \in Nat
  BY SetsAreFinite, FS_CardinalityType
<1>2. phase \in {"install", "recover"} => Len(header) <= LogSlots
  BY DEF IInv, SpaceInv, ListInv
<1> QED BY <1>1, <1>2, SizeAssumption DEF IInv, TypeOK, SpaceInv

\* While no header is on the device, recovery changes nothing.
LEMMA RecoveredEmpty ==
    ASSUME TypeOK, hdr = <<>>
    PROVE  Recovered = disk
<1>1. Members(hdr) = {}
  BY EmptyFacts
<1>2. Recovered = [b \in Blocks |-> disk[b]]
  BY <1>1 DEF Recovered
<1> QED BY <1>2 DEF TypeOK

LEMMA RecoveredAt ==
    ASSUME Distinct(hdr)
    PROVE  /\ Recovered = [b \in Blocks |-> Recovered[b]]
           /\ \A i \in DOMAIN hdr : hdr[i] \in Blocks => Recovered[hdr[i]] = logd[i]
           /\ \A b \in Blocks : b \notin Members(hdr) => Recovered[b] = disk[b]
<1>1. ASSUME NEW i \in DOMAIN hdr, hdr[i] \in Blocks
      PROVE  Recovered[hdr[i]] = logd[i]
  <2>1. Place(hdr, hdr[i]) \in DOMAIN hdr /\ hdr[Place(hdr, hdr[i])] = hdr[i]
    BY DEF Place
  <2>2. Place(hdr, hdr[i]) = i
    BY <2>1 DEF Distinct
  <2>3. hdr[i] \in Members(hdr)
    BY DEF Members
  <2> QED BY <1>1, <2>2, <2>3 DEF Recovered
<1>2. ASSUME NEW b \in Blocks, b \notin Members(hdr)
      PROVE  Recovered[b] = disk[b]
  BY <1>2 DEF Recovered
<1>3. Recovered = [b \in Blocks |-> Recovered[b]]
  BY DEF Recovered
<1> QED BY <1>1, <1>2, <1>3

-----------------------------------------------------------------------------
(* What each step does to the contents and to the recoverable device. *)

\* A step leaves both alone.
Quiet == /\ \A b \in Blocks : Content(b)' = Content(b)
         /\ Recovered' = Recovered

LEMMA InitData == Init => DataInv
  BY DEF Init, DataInv, Content

LEMMA SameData ==
    ASSUME RInv, UNCHANGED <<disk, logd, hdr, mem, header, own, phase, tail>>
    PROVE  DataInv' /\ Quiet
<1>1. Quiet
  BY DEF Quiet, Content, Recovered
<1>2. DataInv'
  BY DEF RInv, DataInv, Content, Unowned
<1> QED BY <1>1, <1>2

\* Only an operation that runs while nobody commits changes a block.
LEMMA WriteData ==
    ASSUME RInv, NEW o \in Ops, NEW b \in Blocks, NEW v \in Vals, Write(o, b, v)
    PROVE  /\ DataInv' /\ phase = "free"
           /\ \A c \in Blocks : Content(c)' = IF c = b THEN v ELSE Content(c)
           /\ Recovered' = Recovered
<1> USE DEF RInv, IInv, device, cache, log
<1>1. phase = "free"
  BY DEF Write, CtlInv, TypeOK
<1>2. \A c \in Blocks : Content(c)' = IF c = b THEN v ELSE Content(c)
  BY ContentAssumption DEF Write, Content, TypeOK
<1>3. Recovered' = Recovered
  BY DEF Write, Recovered
<1>4. \A c \in Blocks : Unowned(c)' => c # b /\ Unowned(c)
  BY BlockAssumption DEF Write, Unowned, TypeOK
<1>5. DataInv'
  BY <1>1, <1>2, <1>4 DEF Write, DataInv
<1> QED BY <1>1, <1>2, <1>3, <1>5

LEMMA SyncData ==
    ASSUME RInv, NEW o \in Ops, Sync(o)
    PROVE  DataInv' /\ Quiet
<1> USE DEF RInv, IInv, device, cache, log
<1>1. Quiet
  BY DEF Sync, Quiet, Content, Recovered
<1>2. own[o] \in Blocks
  BY DEF Sync, TypeOK
<1>3. Members(header') = Members(header) \cup {own[o]}
  <2>1. CASE own[o] \in Members(header)
    BY <2>1 DEF Sync
  <2>2. CASE own[o] \notin Members(header)
    <3>1. header' = Append(header, own[o])
      BY <2>2 DEF Sync
    <3> QED BY <1>2, <2>2, <3>1, AppendFacts DEF TypeOK, ListInv
  <2> QED BY <2>1, <2>2
<1>4. \A c \in Blocks : Unowned(c)' /\ c \notin Members(header') => Unowned(c)
  BY <1>3 DEF Sync, Unowned, TypeOK
<1>5. \A c \in Blocks : disk'[c] = disk[c] /\ Content(c)' = Content(c)
  BY <1>1 DEF Sync, Quiet
<1>6. phase' = "free" /\ phase = "free"
  BY DEF Sync
<1>7. DataInv'
  BY <1>3, <1>4, <1>5, <1>6 DEF DataInv
<1> QED BY <1>1, <1>7

LEMMA StartData ==
    ASSUME RInv, NEW o \in Ops, StartCommit(o)
    PROVE  DataInv' /\ Quiet
<1> USE DEF RInv, IInv, device, cache, log
<1>1. Quiet
  BY DEF StartCommit, Quiet, Content, Recovered
<1>2. DataInv'
  BY DEF StartCommit, DataInv, Content, Unowned
<1> QED BY <1>1, <1>2

LEMMA CopyData ==
    ASSUME RInv, CopyToLog
    PROVE  DataInv' /\ Quiet
<1> USE DEF RInv, IInv, device, cache, log
<1>1. Recovered' = Recovered
  <2>1. hdr = <<>> /\ hdr' = <<>> /\ disk' = disk
    BY DEF CopyToLog, ListInv
  <2>2. TypeOK
    OBVIOUS
  <2>3. Recovered = disk
    BY <2>1, <2>2, RecoveredEmpty
  <2>4. Recovered' = disk'
    <3>1. Members(hdr') = {}
      BY <2>1, EmptyFacts
    <3>2. Recovered' = [b \in Blocks |-> disk'[b]]
      BY <3>1 DEF Recovered
    <3> QED BY <2>1, <2>2, <3>2 DEF TypeOK
  <2> QED BY <2>1, <2>3, <2>4
<1>2. Quiet
  BY <1>1 DEF CopyToLog, Quiet, Content
<1>3. /\ tail + 1 \in 1 .. LogSlots /\ tail' = tail + 1 /\ tail \in Nat
      /\ phase = "copy" /\ phase' = "copy"
      /\ logd' = [logd EXCEPT ![tail + 1] = Content(header[tail + 1])]
      /\ UNCHANGED <<header, own, disk, mem>>
  BY HeaderFacts, SizeAssumption DEF CopyToLog
<1>4. \A i \in 1 .. tail' : header[i] \in Blocks
  BY HeaderFacts DEF CopyToLog
<1>5. \A i \in 1 .. tail' : logd'[i] = Content(header[i])
  BY <1>3 DEF DataInv, TypeOK
<1>6. \A i \in 1 .. tail' : logd'[i] = Content(header[i])'
  BY <1>2, <1>3, <1>4, <1>5 DEF Quiet
<1>7. \A b \in Blocks : Unowned(b)' <=> Unowned(b)
  BY <1>3 DEF Unowned
<1>8. \A b \in Blocks : b \notin Members(header') /\ Unowned(b)' => Content(b)' = disk'[b]
  BY <1>2, <1>3, <1>7 DEF Quiet, DataInv
<1>9. DataInv'
  BY <1>3, <1>6, <1>8 DEF DataInv
<1> QED BY <1>2, <1>9

\* The commit point: what was the content of memory is now what recovery
\* would bring back.
LEMMA HeaderData ==
    ASSUME RInv, WriteHeader
    PROVE  /\ DataInv'
           /\ \A b \in Blocks : Content(b)' = Content(b) /\ Recovered'[b] = Content(b)
           /\ Recovered' = [b \in Blocks |-> Recovered'[b]]
<1> USE DEF RInv, IInv, device, cache, log
<1>1. /\ hdr' = header /\ tail' = 0 /\ phase = "copy" /\ phase' = "install"
      /\ UNCHANGED <<disk, logd, mem, own, header>> /\ tail = Len(header)
  BY DEF WriteHeader
<1>2. \A b \in Blocks : Content(b)' = Content(b)
  BY <1>1 DEF Content
<1>3. \A b \in Blocks : Unowned(b) /\ Unowned(b)'
  BY <1>1, BlockAssumption DEF CtlInv, Unowned
<1>4. \A i \in 1 .. Len(header) : logd[i] = Content(header[i]) /\ header[i] \in Blocks
  BY <1>1, HeaderFacts DEF DataInv
<1>5. Distinct(hdr')
  BY <1>1 DEF ListInv
<1>6. /\ Recovered' = [b \in Blocks |-> Recovered'[b]]
      /\ \A i \in DOMAIN hdr' : hdr'[i] \in Blocks => Recovered'[hdr'[i]] = logd'[i]
      /\ \A b \in Blocks : b \notin Members(hdr') => Recovered'[b] = disk'[b]
  <2>1. (Distinct(hdr) =>
           /\ Recovered = [b \in Blocks |-> Recovered[b]]
           /\ \A i \in DOMAIN hdr : hdr[i] \in Blocks => Recovered[hdr[i]] = logd[i]
           /\ \A b \in Blocks : b \notin Members(hdr) => Recovered[b] = disk[b])'
    BY RecoveredAt, PTL
  <2> QED BY <1>5, <2>1
<1>7. ASSUME NEW b \in Blocks PROVE Recovered'[b] = Content(b)
  <2>1. CASE b \in Members(header)
    <3>1. PICK i \in 1 .. Len(header) : header[i] = b
      BY <2>1, HeaderFacts DEF Members
    <3> QED BY <1>1, <1>4, <1>6, <3>1, HeaderFacts
  <2>2. CASE b \notin Members(header)
    BY <1>1, <1>3, <1>6, <2>2 DEF DataInv
  <2> QED BY <2>1, <2>2
<1>8. \A i \in 1 .. Len(header) : Content(header[i])' = Content(header[i])
  BY <1>1 DEF Content
<1>9. DataInv'
  BY <1>1, <1>2, <1>3, <1>4, <1>8 DEF DataInv
<1> QED BY <1>2, <1>6, <1>7, <1>9

\* A block listed in the header of the device gets what its slot holds.
LEMMA WriteHomeKeepsRecovered ==
    ASSUME IInv, NEW i \in 1 .. Len(header), hdr = header,
           disk' = [disk EXCEPT ![header[i]] = logd[i]], UNCHANGED <<logd, hdr>>
    PROVE  Recovered' = Recovered
<1>1. header[i] \in Members(hdr) /\ header[i] \in Blocks
  BY HeaderFacts DEF Members
<1>2. \A b \in Blocks : b \notin Members(hdr) => disk'[b] = disk[b]
  BY <1>1 DEF IInv, TypeOK
<1> QED BY <1>2 DEF Recovered

LEMMA InstallData ==
    ASSUME RInv, Install
    PROVE  DataInv' /\ Quiet
<1> USE DEF RInv, IInv, device, cache, log
<1> DEFINE k == tail + 1
<1>1. /\ phase = "install" /\ phase' = "install" /\ tail' = k /\ tail \in Nat
      /\ k \in 1 .. Len(header) /\ k \in 1 .. LogSlots /\ header[k] \in Blocks
      /\ disk' = [disk EXCEPT ![header[k]] = logd[k]]
      /\ mem' = [mem EXCEPT ![header[k]] = logd[k]]
      /\ UNCHANGED <<logd, hdr, header, own>>
  BY HeaderFacts, SizeAssumption DEF Install
<1>2. logd[k] = Content(header[k]) /\ logd[k] \in Vals
  BY <1>1 DEF DataInv, TypeOK
<1>3. \A b \in Blocks : Content(b)' = Content(b)
  BY <1>1, <1>2, ContentAssumption DEF Content, TypeOK
<1>4. Recovered' = Recovered
  BY <1>1, WriteHomeKeepsRecovered DEF ListInv
<1>5. \A b \in Blocks : b \notin Members(header) => disk'[b] = disk[b]
  <2>1. header[k] \in Members(header)
    BY <1>1, HeaderFacts DEF Members
  <2> QED BY <1>1, <2>1 DEF TypeOK
<1>6. \A i \in 1 .. tail' : disk'[header[i]] = logd[i]
  <2>1. ASSUME NEW i \in 1 .. tail' PROVE disk'[header[i]] = logd[i]
    <3>1. CASE i = k
      BY <1>1, <3>1 DEF TypeOK
    <3>2. CASE i # k
      <4>1. i \in 1 .. tail /\ i \in 1 .. Len(header)
        BY <1>1, <3>2, HeaderFacts
      <4>2. header[i] # header[k] /\ header[i] \in Blocks
        BY <1>1, <3>2, <4>1, HeaderFacts DEF ListInv, Distinct
      <4> QED BY <1>1, <4>1, <4>2 DEF DataInv, TypeOK
    <3> QED BY <3>1, <3>2
  <2> QED BY <2>1
<1>7. \A i \in 1 .. Len(header) : logd[i] = Content(header[i])'
  BY <1>1, <1>3, HeaderFacts DEF DataInv
<1>8. \A b \in Blocks : b \notin Members(header) /\ Unowned(b)' => Content(b)' = disk'[b]
  BY <1>1, <1>3, <1>5 DEF DataInv, Unowned
<1>9. DataInv'
  BY <1>1, <1>6, <1>7, <1>8 DEF DataInv
<1> QED BY <1>3, <1>4, <1>9 DEF Quiet

\* Once all slots are written home, clearing the header loses nothing.
LEMMA ClearKeepsRecovered ==
    ASSUME IInv, hdr = header, \A i \in 1 .. Len(header) : disk[header[i]] = logd[i]
    PROVE  Recovered = disk
<1>1. Distinct(hdr)
  BY DEF IInv, ListInv
<1>2. ASSUME NEW b \in Blocks PROVE Recovered[b] = disk[b]
  <2>1. CASE b \in Members(hdr)
    <3>1. PICK i \in 1 .. Len(header) : header[i] = b
      BY <2>1, HeaderFacts DEF Members
    <3> QED BY <1>1, <3>1, RecoveredAt, HeaderFacts
  <2>2. CASE b \notin Members(hdr)
    BY <1>1, <2>2, RecoveredAt
  <2> QED BY <2>1, <2>2
<1>3. Recovered = [b \in Blocks |-> disk[b]]
  BY <1>1, <1>2, RecoveredAt
<1> QED BY <1>3 DEF IInv, TypeOK

LEMMA ClearedHeader ==
    ASSUME TypeOK, hdr' = <<>>, disk' = disk
    PROVE  Recovered' = disk
<1>1. Members(hdr') = {}
  BY EmptyFacts
<1>2. Recovered' = [b \in Blocks |-> disk[b]]
  BY <1>1 DEF Recovered
<1> QED BY <1>2 DEF TypeOK

LEMMA FinishData ==
    ASSUME RInv, NEW o \in Ops, FinishCommit(o)
    PROVE  DataInv' /\ Quiet
<1> USE DEF RInv, IInv, device, cache, log
<1>1. /\ phase = "install" /\ phase' = "free" /\ tail = Len(header)
      /\ header' = <<>> /\ hdr' = <<>> /\ UNCHANGED <<disk, logd, mem, own>>
  BY DEF FinishCommit
<1>2. \A b \in Blocks : Content(b)' = Content(b)
  BY <1>1 DEF Content
<1>3. Recovered = disk
  BY <1>1, ClearKeepsRecovered DEF DataInv, ListInv
<1>4. Quiet
  BY <1>1, <1>2, <1>3, ClearedHeader DEF Quiet
<1>5. \A b \in Blocks : Unowned(b)
  BY <1>1, BlockAssumption DEF CtlInv, Unowned
<1>6. ASSUME NEW b \in Blocks PROVE Content(b) = disk[b]
  <2>1. CASE b \in Members(header)
    <3>1. PICK i \in 1 .. Len(header) : header[i] = b
      BY <2>1, HeaderFacts DEF Members
    <3> QED BY <1>1, <3>1 DEF DataInv
  <2>2. CASE b \notin Members(header)
    BY <1>1, <1>5, <2>2 DEF DataInv
  <2> QED BY <2>1, <2>2
<1>7. DataInv'
  BY <1>1, <1>2, <1>6 DEF DataInv
<1> QED BY <1>4, <1>7

LEMMA CacheData ==
    ASSUME RInv, NEW b \in Blocks, ReadBlock(b) \/ Evict(b)
    PROVE  DataInv' /\ Quiet
<1> USE DEF RInv, IInv, device, cache, log
<1>1. UNCHANGED <<disk, logd, hdr, header, own, phase, tail>>
  BY DEF ReadBlock, Evict
<1>2. \A c \in Blocks : Content(c)' = Content(c)
  <2>1. CASE ReadBlock(b)
    BY <2>1, ContentType, ContentAssumption DEF ReadBlock, Content, TypeOK
  <2>2. CASE Evict(b)
    <3>1. Content(b) = disk[b]
      <4>1. b \notin pinned /\ Unowned(b)
        BY <2>2 DEF Evict
      <4>2. CASE phase \in {"boot", "recover"}
        BY <4>2 DEF DataInv
      <4>3. CASE phase \in {"free", "copy"}
        BY <4>1, <4>3 DEF DataInv, ListInv
      <4>4. CASE phase = "install"
        <5>1. CASE b \in Members(header)
          <6>1. PICK i \in 1 .. Len(header) : header[i] = b
            BY <5>1, HeaderFacts DEF Members
          <6>2. i \notin tail + 1 .. Len(header)
            BY <4>1, <4>4, <6>1 DEF ListInv
          <6>3. i \in 1 .. tail
            BY <6>2, HeaderFacts
          <6> QED BY <4>4, <6>1, <6>3 DEF DataInv
        <5>2. CASE b \notin Members(header)
          BY <4>1, <4>4, <5>2 DEF DataInv
        <5> QED BY <5>1, <5>2
      <4> QED BY <4>2, <4>3, <4>4 DEF TypeOK
    <3> QED BY <2>2, <3>1 DEF Evict, Content, TypeOK
  <2> QED BY <2>1, <2>2
<1>3. Recovered' = Recovered
  BY <1>1 DEF Recovered
<1>4. \A i \in 1 .. Len(header) : Content(header[i])' = Content(header[i])
  BY <1>1, <1>2, HeaderFacts
<1>5. \A c \in Blocks : Unowned(c)' <=> Unowned(c)
  BY <1>1 DEF Unowned
<1>6. phase = "copy" => tail <= Len(header)
  BY DEF CtlInv
<1>7. phase = "copy" => \A i \in 1 .. tail : logd'[i] = Content(header[i])'
  BY <1>1, <1>4, <1>6, HeaderFacts DEF DataInv
<1>8. DataInv'
  BY <1>1, <1>2, <1>4, <1>5, <1>7 DEF DataInv
<1> QED BY <1>2, <1>3, <1>8 DEF Quiet

\* A block that is synced with ctx = NULL: at once what recovery brings back,
\* unless a header on the device lists it.
LEMMA SyncNowData ==
    ASSUME RInv, NEW b \in Blocks, SyncNow(b)
    PROVE  /\ DataInv' /\ \A c \in Blocks : Content(c)' = Content(c)
           /\ \/ Recovered' = Recovered
              \/ Recovered' = [Recovered EXCEPT ![b] = Content(b)]
<1> USE DEF RInv, IInv, device, cache, log
<1>1. /\ UNCHANGED <<logd, hdr, header, own, phase, tail>>
      /\ disk' = [disk EXCEPT ![b] = Content(b)]
      /\ mem' = [mem EXCEPT ![b] = Content(b)]
      /\ phase # "boot" /\ phase # "recover"
  BY DEF SyncNow
<1>2. \A c \in Blocks : Content(c)' = Content(c)
  BY <1>1, ContentType, ContentAssumption DEF Content, TypeOK
<1>3. /\ disk'[b] = Content(b)
      /\ \A c \in Blocks \ {b} : disk'[c] = disk[c]
  BY <1>1 DEF TypeOK
<1>4. Recovered' = [c \in Blocks |->
          IF c \in Members(hdr) THEN logd[Place(hdr, c)] ELSE disk'[c]]
  BY <1>1 DEF Recovered
<1>5. b \in Members(hdr) => Recovered' = Recovered
  BY <1>3, <1>4 DEF Recovered
<1>6. b \notin Members(hdr) => Recovered' = [Recovered EXCEPT ![b] = Content(b)]
  BY <1>3, <1>4 DEF Recovered
<1>7. \A c \in Blocks : c \notin Members(header') /\ Unowned(c)' => Content(c)' = disk'[c]
  BY <1>1, <1>2, <1>3 DEF DataInv, Unowned, TypeOK
<1>8. phase = "copy" => \A i \in 1 .. tail : logd'[i] = Content(header[i])'
  <2>1. phase = "copy" => tail <= Len(header)
    BY DEF CtlInv
  <2> QED BY <1>1, <1>2, <2>1, HeaderFacts DEF DataInv
<1>9. phase = "install" => \A i \in 1 .. Len(header) : logd'[i] = Content(header[i])'
  BY <1>1, <1>2, HeaderFacts DEF DataInv
<1>10. phase = "install" => \A i \in 1 .. tail : disk'[header[i]] = logd[i]
  <2> SUFFICES ASSUME phase = "install", NEW i \in 1 .. tail
               PROVE  disk'[header[i]] = logd[i]
    OBVIOUS
  <2>1. i \in 1 .. Len(header) /\ header[i] \in Blocks
    BY HeaderFacts DEF CtlInv
  <2>2. CASE header[i] = b
    BY <1>3, <2>1, <2>2 DEF DataInv
  <2>3. CASE header[i] # b
    BY <1>3, <2>1, <2>3 DEF DataInv
  <2> QED BY <2>2, <2>3
<1>11. DataInv'
  BY <1>1, <1>7, <1>8, <1>9, <1>10 DEF DataInv
<1> QED BY <1>2, <1>5, <1>6, <1>11

LEMMA CrashData ==
    ASSUME RInv, Crash
    PROVE  DataInv' /\ Recovered' = Recovered
<1> USE DEF device
<1>1. Recovered' = Recovered
  BY DEF Crash, Recovered
<1>2. DataInv'
  BY DEF Crash, DataInv, Content
<1> QED BY <1>1, <1>2

LEMMA RecoverData ==
    ASSUME RInv, ReadHeader \/ Recover
    PROVE  DataInv' /\ Recovered' = Recovered
<1> USE DEF RInv, IInv, device, cache, log
<1>1. CASE ReadHeader
  <2>1. Recovered' = Recovered
    BY <1>1 DEF ReadHeader, Recovered
  <2> QED BY <1>1, <2>1 DEF ReadHeader, DataInv, Content
<1>2. CASE Recover
  <2> DEFINE k == tail + 1
  <2>1. /\ phase = "recover" /\ phase' = "recover" /\ tail' = k /\ tail \in Nat
        /\ k \in 1 .. Len(header) /\ k \in 1 .. LogSlots /\ header[k] \in Blocks
        /\ disk' = [disk EXCEPT ![header[k]] = logd[k]]
        /\ mem' = [mem EXCEPT ![header[k]] = logd[k]]
        /\ UNCHANGED <<logd, hdr, header>>
    BY <1>2, HeaderFacts, SizeAssumption DEF Recover
  <2>2. Recovered' = Recovered
    BY <2>1, WriteHomeKeepsRecovered DEF ListInv
  <2>3. \A b \in Blocks : Content(b)' = disk'[b]
    BY <2>1 DEF DataInv, Content, TypeOK
  <2>4. ASSUME NEW i \in 1 .. tail' PROVE disk'[header[i]] = logd[i]
    <3>1. CASE i = k
      BY <2>1, <3>1 DEF TypeOK
    <3>2. CASE i # k
      <4>1. i \in 1 .. tail /\ i \in 1 .. Len(header)
        BY <2>1, <3>2, HeaderFacts
      <4>2. header[i] # header[k] /\ header[i] \in Blocks
        BY <2>1, <3>2, <4>1, HeaderFacts DEF ListInv, Distinct
      <4> QED BY <2>1, <4>1, <4>2 DEF DataInv, TypeOK
    <3> QED BY <3>1, <3>2
  <2> QED BY <2>1, <2>2, <2>3, <2>4 DEF DataInv
<1> QED BY <1>1, <1>2

LEMMA FinishRecoveryData ==
    ASSUME RInv, FinishRecovery
    PROVE  /\ DataInv' /\ Recovered' = Recovered
           /\ \A b \in Blocks : Content(b)' = Recovered[b]
<1> USE DEF RInv, IInv, device, cache, log
<1>1. /\ phase = "recover" /\ phase' = "free" /\ tail = Len(header)
      /\ header' = <<>> /\ hdr' = <<>> /\ UNCHANGED <<disk, logd, mem, own>>
  BY DEF FinishRecovery
<1>2. Recovered = disk
  BY <1>1, ClearKeepsRecovered DEF DataInv, ListInv
<1>3. Recovered' = Recovered
  BY <1>1, <1>2, ClearedHeader
<1>4. \A b \in Blocks : Content(b)' = disk[b]
  BY <1>1 DEF DataInv, Content
<1>5. DataInv'
  BY <1>1, <1>4 DEF DataInv
<1> QED BY <1>2, <1>3, <1>4, <1>5

-----------------------------------------------------------------------------
(* Every step is a step of the store or none at all. *)

\* The store as it is while the file system is up, and while it comes up.
LEMMA VisibleFacts ==
    /\ phase \in {"boot", "recover"} => Visible = Recovered
    /\ phase \notin {"boot", "recover"} => Visible = [b \in Blocks |-> Content(b)]
  BY DEF Visible

LEMMA QuietIsSilent ==
    ASSUME Quiet, phase \notin {"boot", "recover"}, phase' \notin {"boot", "recover"}
    PROVE  Visible' = Visible /\ Recovered' = Recovered
<1>1. Visible = [b \in Blocks |-> Content(b)] /\ Visible' = [b \in Blocks |-> Content(b)']
  BY DEF Visible
<1> QED BY <1>1 DEF Quiet

LEMMA InitStore == Init => Store!AInit
<1> SUFFICES ASSUME Init PROVE Store!AInit
  OBVIOUS
<1>1. Members(hdr) = {}
  BY EmptyFacts DEF Init
<1>2. Recovered = [b \in Blocks |-> V0]
  BY <1>1 DEF Init, Recovered
<1>3. Visible = Recovered
  BY DEF Init, Visible
<1>4. Running = {}
  BY DEF Init, Running
<1> QED BY <1>2, <1>3, <1>4 DEF Store!AInit

LEMMA StoreStep ==
    ASSUME RInv, LogStep \/ Crash
    PROVE  DataInv' /\ [Store!ANext]_(Store!avars)
<1> USE DEF RInv, IInv, device, cache, log
<1> DEFINE R == Running
<1> USE DEF Running
<1> DEFINE Goal == DataInv' /\ [Store!ANext]_(Store!avars)
<1>0. ASSUME DataInv', Visible' = Visible, Recovered' = Recovered, R' = R
      PROVE  Goal
  BY <1>0 DEF Store!avars
<1>1. ASSUME NEW o \in Ops, CallBegin(o) \/ WaitLog(o) \/ (BeginOp(o) /\ (committing \/ LogFull))
      PROVE  Goal
  <2>1. /\ UNCHANGED <<disk, logd, hdr, mem, header, own, phase, tail>>
        /\ phase \notin {"boot", "recover"}
    BY <1>1 DEF CallBegin, WaitLog, BeginOp, CtlInv
  <2>2. R' = R
    BY <1>1 DEF CallBegin, WaitLog, BeginOp, TypeOK
  <2> QED BY <1>0, <2>1, <2>2, SameData, QuietIsSilent
<1>2. ASSUME NEW o \in Ops, BeginOp(o), ~ (committing \/ LogFull) PROVE Goal
  <2>1. /\ UNCHANGED <<disk, logd, hdr, mem, header, own, phase, tail>>
        /\ phase = "free" /\ pc' = [pc EXCEPT ![o] = "run"] /\ pc[o] = "begin"
    BY <1>2 DEF BeginOp
  <2>2. R' = R \cup {o} /\ o \notin R
    BY <2>1 DEF TypeOK
  <2>3. DataInv' /\ Visible' = Visible /\ Recovered' = Recovered
    BY <2>1, SameData, QuietIsSilent
  <2>4. Store!ABegin(o)
    BY <2>2, <2>3 DEF Store!ABegin
  <2> QED BY <2>3, <2>4 DEF Store!ANext
<1>3. ASSUME NEW o \in Ops, EndOp(o) PROVE Goal
  <2>1. /\ UNCHANGED <<disk, logd, hdr, mem, header, own, phase, tail>>
        /\ phase = "free" /\ pc[o] = "run"
    BY <1>3 DEF EndOp
  <2>2. R' = R \ {o} /\ o \in R
    <3>1. CASE outstanding = 1
      BY <1>3, <3>1 DEF EndOp, TypeOK
    <3>2. CASE outstanding # 1
      BY <1>3, <3>2, PostAllFacts DEF EndOp
    <3> QED BY <3>1, <3>2
  <2>3. DataInv' /\ Visible' = Visible /\ Recovered' = Recovered
    BY <2>1, SameData, QuietIsSilent
  <2>4. Store!AEnd(o)
    BY <2>2, <2>3 DEF Store!AEnd
  <2> QED BY <2>3, <2>4 DEF Store!ANext
<1>4. ASSUME NEW o \in Ops, NEW b \in Blocks, NEW v \in Vals, Write(o, b, v) PROVE Goal
  <2>1. /\ DataInv' /\ phase = "free" /\ phase' = "free" /\ Recovered' = Recovered
        /\ \A c \in Blocks : Content(c)' = IF c = b THEN v ELSE Content(c)
    BY <1>4, WriteData DEF Write
  <2>2. Visible = [c \in Blocks |-> Content(c)] /\ Visible' = [c \in Blocks |-> Content(c)']
    BY <2>1 DEF Visible
  <2>3. Visible' = [Visible EXCEPT ![b] = v]
    BY <2>1, <2>2
  <2>4. R' = R /\ o \in R
    BY <1>4 DEF Write
  <2>5. Store!AWrite(o, b, v)
    BY <2>1, <2>3, <2>4 DEF Store!AWrite
  <2> QED BY <2>1, <2>5 DEF Store!ANext
<1>5. ASSUME NEW o \in Ops, Sync(o) \/ StartCommit(o) PROVE Goal
  <2>1. phase = "free" /\ phase' \in {"free", "copy"} /\ DataInv' /\ Quiet
    BY <1>5, SyncData, StartData DEF Sync, StartCommit
  <2>2. R' = R
    BY <1>5 DEF Sync, StartCommit
  <2> QED BY <1>0, <2>1, <2>2, QuietIsSilent
<1>6. ASSUME NEW o \in Ops, FinishCommit(o) PROVE Goal
  <2>1. phase = "install" /\ phase' = "free" /\ DataInv' /\ Quiet
    BY <1>6, FinishData DEF FinishCommit
  <2>2. R' = R
    BY <1>6, PostAllFacts DEF FinishCommit
  <2> QED BY <1>0, <2>1, <2>2, QuietIsSilent
<1>7. CASE CopyToLog \/ Install
  <2>1. /\ phase \in {"copy", "install"} /\ phase' = phase /\ DataInv' /\ Quiet
    BY <1>7, CopyData, InstallData DEF CopyToLog, Install
  <2>2. R' = R
    BY <1>7 DEF CopyToLog, Install
  <2> QED BY <1>0, <2>1, <2>2, QuietIsSilent
<1>8. CASE WriteHeader
  <2>1. /\ phase = "copy" /\ phase' = "install" /\ DataInv'
        /\ \A b \in Blocks : Content(b)' = Content(b) /\ Recovered'[b] = Content(b)
        /\ Recovered' = [b \in Blocks |-> Recovered'[b]]
    BY <1>8, HeaderData DEF WriteHeader
  <2>2. Visible = [c \in Blocks |-> Content(c)] /\ Visible' = [c \in Blocks |-> Content(c)']
    BY <2>1 DEF Visible
  <2>3. Visible' = Visible /\ Recovered' = Visible
    BY <2>1, <2>2
  <2>4. R = {} /\ R' = R
    BY <1>8 DEF WriteHeader, CtlInv
  <2>5. Store!ACommit
    BY <2>3, <2>4 DEF Store!ACommit
  <2> QED BY <2>1, <2>5 DEF Store!ANext
<1>9. ASSUME NEW b \in Blocks, ReadBlock(b) \/ Evict(b) PROVE Goal
  <2>1. DataInv' /\ Quiet /\ phase' = phase /\ R' = R
    BY <1>9, CacheData DEF ReadBlock, Evict
  <2>2. Visible' = Visible
    <3>1. CASE phase \in {"boot", "recover"}
      BY <2>1, <3>1 DEF Visible, Quiet
    <3>2. CASE phase \notin {"boot", "recover"}
      BY <2>1, <3>2, QuietIsSilent
    <3> QED BY <3>1, <3>2
  <2> QED BY <1>0, <2>1, <2>2 DEF Quiet
<1>10. ASSUME NEW b \in Blocks, SyncNow(b) PROVE Goal
  <2>1. /\ DataInv' /\ \A c \in Blocks : Content(c)' = Content(c)
        /\ \/ Recovered' = Recovered
           \/ Recovered' = [Recovered EXCEPT ![b] = Content(b)]
    BY <1>10, SyncNowData
  <2>2. R' = R /\ b \in Direct /\ phase' = phase /\ phase \notin {"boot", "recover"}
    BY <1>10 DEF SyncNow
  <2>3. Visible = [c \in Blocks |-> Content(c)] /\ Visible' = [c \in Blocks |-> Content(c)']
    BY <2>2 DEF Visible
  <2>4. Visible' = Visible /\ Visible[b] = Content(b)
    BY <2>1, <2>3
  <2>5. CASE Recovered' = Recovered
    BY <1>0, <2>1, <2>2, <2>4, <2>5
  <2>6. CASE Recovered' = [Recovered EXCEPT ![b] = Content(b)]
    <3>1. Store!ALeak(b)
      BY <2>2, <2>4, <2>6 DEF Store!ALeak
    <3> QED BY <2>1, <3>1 DEF Store!ANext
  <2> QED BY <2>1, <2>5, <2>6
<1>11. CASE Crash
  <2>1. DataInv' /\ Recovered' = Recovered /\ phase' = "boot"
    BY <1>11, CrashData DEF Crash
  <2>2. R' = {} /\ Visible' = Recovered
    BY <1>11, <2>1 DEF Crash, Visible
  <2>3. Store!ACrash
    BY <2>1, <2>2 DEF Store!ACrash
  <2> QED BY <2>1, <2>3 DEF Store!ANext
<1>12. CASE ReadHeader \/ Recover
  <2>1. /\ DataInv' /\ Recovered' = Recovered /\ R' = R
        /\ phase \in {"boot", "recover"} /\ phase' \in {"boot", "recover"}
    BY <1>12, RecoverData DEF ReadHeader, Recover
  <2> QED BY <1>0, <2>1 DEF Visible
<1>13. CASE FinishRecovery
  <2>1. /\ DataInv' /\ Recovered' = Recovered /\ R' = R
        /\ phase = "recover" /\ phase' = "free"
        /\ \A b \in Blocks : Content(b)' = Recovered[b]
    BY <1>13, FinishRecoveryData DEF FinishRecovery
  <2>2. Visible = Recovered /\ Visible' = [b \in Blocks |-> Content(b)']
    BY <2>1 DEF Visible
  <2>3. Recovered = [b \in Blocks |-> Recovered[b]]
    BY DEF Recovered
  <2>4. Visible' = Visible
    BY <2>1, <2>2, <2>3
  <2> QED BY <1>0, <2>1, <2>4
<1> QED
  BY <1>1, <1>2, <1>3, <1>4, <1>5, <1>6, <1>7, <1>8, <1>9, <1>10, <1>11, <1>12, <1>13
  DEF LogStep, OpStep

\* begin_op, sync, end_op, commit and recover_from_log implement the atomic
\* store: at whatever step the machine stops, it comes up with the memory of a
\* moment when no operation ran, but for the blocks that are synced with
\* ctx = NULL, which may be newer.
THEOREM LogIsCrashAtomic == Spec => CrashAtomic
<1>1. Init => DataInv /\ Store!AInit
  BY InitData, InitStore
<1>2. IInv /\ DataInv /\ [Next]_vars => DataInv' /\ [Store!ANext]_(Store!avars)
  <2> SUFFICES ASSUME IInv, DataInv, [Next]_vars
               PROVE  DataInv' /\ [Store!ANext]_(Store!avars)
    OBVIOUS
  <2>0. LogStep \/ Crash \/ FlagStep
    BY NextCases DEF IInv
  <2>1. CASE LogStep \/ Crash
    BY <2>1, StoreStep DEF RInv
  <2>2. CASE FlagStep
    <3>1. Visible' = Visible /\ Recovered' = Recovered
      BY <2>2 DEF FlagStep, Visible, Recovered, Content
    <3>2. Running' = Running
      BY <2>2 DEF FlagStep, Running
    <3>3. DataInv'
      BY <2>2, SameData DEF FlagStep, RInv
    <3> QED BY <3>1, <3>2, <3>3 DEF Store!avars
  <2> QED BY <2>0, <2>1, <2>2
<1> QED BY <1>1, <1>2, Invariance, PTL DEF Spec, CrashAtomic, Store!ASpec
=============================================================================
