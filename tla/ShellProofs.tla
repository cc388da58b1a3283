----------------------------- MODULE ShellProofs -----------------------------
(***************************************************************************)
(* Proofs about the console: JobPool for any number of shells, slots and   *)
(* jobs (who reaps, launches, runs and is killed in the pool, with JobInv  *)
(* the inductive invariant), UartConsole for any rings and threads         *)
(* (UartInv lays the transmit ring out as what follows what was sent), and *)
(* Ymodem for any file and number of faults: YmInv says what may be on the *)
(* line in each phase.                                                     *)
(***************************************************************************)
EXTENDS JobPool, UartConsole, Ymodem, SequenceTheorems, TLAPS

\* Shells and workers are different threads; nobody is neither.
LEMMA ActorFacts ==
  /\ Shells \subseteq Actors /\ Slots \subseteq Actors
  /\ \A a \in Actors : a \in Shells \/ a \in Slots
  /\ \A s \in Shells : s \notin Slots
  /\ Nobody \notin Actors
  /\ NSlots \in Nat /\ MaxJobs \in Nat
  /\ Slots \subseteq Nat /\ Ids \subseteq Nat \ {0}
  /\ Slots \subseteq 1 .. NSlots + 1 /\ 1 \in 1 .. NSlots + 1
BY JobAssumption DEF Actors, Slots, Ids

\* Ids compare as numbers.
LEMMA IdsAreNumbers ==
  ASSUME TypeOK
  PROVE  nextId \in Nat /\ \A w \in Slots : id[w] \in Nat
<1>1. nextId \in Nat
  BY JobAssumption DEF TypeOK, PoolTypes
<1>2. ASSUME NEW w \in Slots
      PROVE  id[w] \in Nat
  <2>1. id[w] \in Ids \cup {0}
    BY DEF TypeOK, PoolTypes
  <2> QED
    BY <2>1, JobAssumption DEF Ids
<1> QED
  BY <1>1, <1>2

\* What an actor that launches or reaps has in hand.
LEMMA OwnerFacts ==
  ASSUME JobInv, NEW a \in Actors, Owns(a)
  PROVE  /\ at[a] \in Slots /\ at[a] + 1 \in 1 .. NSlots + 1
         /\ id[at[a]] \in Ids
         /\ \A b \in Actors : Owns(b) /\ at[b] = at[a] => b = a
         /\ \A i \in Slots : id[i] = id[at[a]] => i = at[a]
<1> USE ActorFacts
<1>1. at[a] \in Slots /\ state[at[a]] # "FREE"
  BY DEF JobInv, OwnerInv, Owns, TypeOK, PoolTypes
<1>2. id[at[a]] \in Ids
  BY <1>1 DEF JobInv, IdInv, TypeOK, PoolTypes
<1>3. at[a] + 1 \in 1 .. NSlots + 1
  BY <1>1 DEF Slots
<1>4. \A b \in Actors : Owns(b) /\ at[b] = at[a] => b = a
  BY DEF JobInv, OwnerInv
<1>5. \A i \in Slots : id[i] = id[at[a]] => i = at[a]
  BY <1>1, <1>2 DEF JobInv, JobsAccounted
<1> QED
  BY <1>1, <1>2, <1>3, <1>4, <1>5

\* A reaper takes a slot whose thread has returned.
LEMMA ReapClaimInv ==
  ASSUME JobInv, NEW a \in Actors, ReapClaim(a)
  PROVE  JobInv'
<1> USE ActorFacts DEF ReapClaim, Lowest, ToReap, Reapable, poolVars,
                       cancelVars, threadVars, Goto
<1>1. PICK i \in Slots :
          /\ state[i] = "RUNNING" /\ i \in completed
          /\ state' = [state EXCEPT ![i] = "REAPING"]
          /\ at' = [at EXCEPT ![a] = i]
  OBVIOUS
<1>2. pc[i] = "none" /\ i # a /\ i \in created /\ ~Owns(a)
  BY <1>1 DEF JobInv, ThreadInv, Alive, Owns, Launches, HasClaimed
<1>3. TypeOK'
  <2>1. PoolTypes'
    BY <1>1, <1>2 DEF JobInv, TypeOK, PoolTypes
  <2>2. JobTypes'
    BY <1>1, <1>2 DEF JobInv, TypeOK, JobTypes, PoolTypes
  <2>3. ThreadTypes'
    BY <1>1, <1>2 DEF JobInv, TypeOK, ThreadTypes
  <2>4. LockType'
    BY <1>1, <1>2 DEF JobInv, TypeOK, LockType
  <2>5. PlaceTypes'
    BY <1>1, <1>2 DEF JobInv, TypeOK, PlaceTypes, Places
  <2> QED
    BY <2>1, <2>2, <2>3, <2>4, <2>5 DEF TypeOK
<1>4. KillHitsItsJob'
  BY <1>1, <1>2 DEF JobInv, TypeOK, JobTypes, PoolTypes, KillHitsItsJob
<1>5. JobsAccounted'
  BY <1>1, <1>2 DEF JobInv, TypeOK, PoolTypes, PlaceTypes, ThreadTypes,
     JobsAccounted
<1>6. OwnerInv'
  BY <1>1, <1>2 DEF JobInv, TypeOK, PoolTypes, PlaceTypes, ThreadTypes,
     OwnerInv, Owns, Launches, HasClaimed
<1>7. ThreadInv'
  BY <1>1, <1>2 DEF JobInv, TypeOK, PoolTypes, PlaceTypes, ThreadTypes,
     ThreadInv, Alive
<1>8. IdInv'
  BY <1>1, <1>2 DEF JobInv, TypeOK, PoolTypes, JobTypes, IdInv
<1>9. LockInv'
  BY <1>1, <1>2 DEF JobInv, TypeOK, PlaceTypes, LockType, LockInv, Terminal
<1> QED
  BY <1>3, <1>4, <1>5, <1>6, <1>7, <1>8, <1>9 DEF JobInv

\* A reaper deletes the thread it claimed.
LEMMA ReapDeleteInv ==
  ASSUME JobInv, NEW a \in Actors, ReapDelete(a)
  PROVE  JobInv'
<1> USE ActorFacts DEF ReapDelete, Say, poolVars, cancelVars, threadVars, Goto
<1>1. /\ at[a] \in Slots /\ at[a] + 1 \in 1 .. NSlots + 1 /\ id[at[a]] \in Ids
      /\ \A b \in Actors : Owns(b) /\ at[b] = at[a] => b = a
      /\ \A i \in Slots : id[i] = id[at[a]] => i = at[a]
  BY OwnerFacts DEF Owns, HasClaimed
<1>2. pc[at[a]] = "none" /\ at[a] # a /\ state[at[a]] = "REAPING"
  BY <1>1 DEF JobInv, OwnerInv, ThreadInv, Alive, Owns, HasClaimed
<1>3. TypeOK'
  <2>1. PoolTypes'
    BY <1>1, <1>2 DEF JobInv, TypeOK, PoolTypes
  <2>2. JobTypes'
    BY <1>1, <1>2 DEF JobInv, TypeOK, JobTypes, PoolTypes
  <2>3. ThreadTypes'
    BY <1>1, <1>2 DEF JobInv, TypeOK, ThreadTypes
  <2>4. LockType'
    BY <1>1, <1>2 DEF JobInv, TypeOK, LockType
  <2>5. PlaceTypes'
    BY <1>1, <1>2 DEF JobInv, TypeOK, PlaceTypes, Places
  <2> QED
    BY <2>1, <2>2, <2>3, <2>4, <2>5 DEF TypeOK
<1>4. KillHitsItsJob'
  BY <1>1, <1>2 DEF JobInv, TypeOK, JobTypes, PoolTypes, KillHitsItsJob
<1>5. JobsAccounted'
  BY <1>1, <1>2 DEF JobInv, TypeOK, PoolTypes, PlaceTypes, ThreadTypes,
     JobsAccounted
<1>6. OwnerInv'
  BY <1>1, <1>2 DEF JobInv, TypeOK, PoolTypes, PlaceTypes, ThreadTypes,
     OwnerInv, Owns, Launches, HasClaimed
<1>7. ThreadInv'
  BY <1>1, <1>2 DEF JobInv, TypeOK, PoolTypes, PlaceTypes, ThreadTypes,
     ThreadInv, Alive
<1>8. IdInv'
  BY <1>1, <1>2 DEF JobInv, TypeOK, PoolTypes, JobTypes, IdInv
<1>9. LockInv'
  BY <1>1, <1>2 DEF JobInv, TypeOK, PlaceTypes, LockType, LockInv, Terminal
<1> QED
  BY <1>3, <1>4, <1>5, <1>6, <1>7, <1>8, <1>9 DEF JobInv

\* A reaper gives the slot of a deleted thread back.
LEMMA ReapFreeInv ==
  ASSUME JobInv, NEW a \in Actors, ReapFree(a)
  PROVE  JobInv'
<1> USE ActorFacts DEF ReapFree, poolVars, cancelVars, threadVars, Goto
<1>1. /\ at[a] \in Slots /\ at[a] + 1 \in 1 .. NSlots + 1 /\ id[at[a]] \in Ids
      /\ \A b \in Actors : Owns(b) /\ at[b] = at[a] => b = a
      /\ \A i \in Slots : id[i] = id[at[a]] => i = at[a]
  BY OwnerFacts DEF Owns, HasClaimed
<1>2. state[at[a]] = "REAPING" /\ at[a] \notin created \cup registered /\ pc[at[a]] = "none"
  BY <1>1 DEF JobInv, OwnerInv, ThreadInv, Alive, Owns, HasClaimed
<1>3. TypeOK'
  <2>1. PoolTypes'
    BY <1>1, <1>2 DEF JobInv, TypeOK, PoolTypes
  <2>2. JobTypes'
    BY <1>1, <1>2 DEF JobInv, TypeOK, JobTypes, PoolTypes
  <2>3. ThreadTypes'
    BY <1>1, <1>2 DEF JobInv, TypeOK, ThreadTypes
  <2>4. LockType'
    BY <1>1, <1>2 DEF JobInv, TypeOK, LockType
  <2>5. PlaceTypes'
    BY <1>1, <1>2 DEF JobInv, TypeOK, PlaceTypes, Places
  <2> QED
    BY <2>1, <2>2, <2>3, <2>4, <2>5 DEF TypeOK
<1>4. KillHitsItsJob'
  BY <1>1, <1>2 DEF JobInv, TypeOK, JobTypes, PoolTypes, KillHitsItsJob
<1>5. JobsAccounted'
  BY <1>1, <1>2 DEF JobInv, TypeOK, PoolTypes, PlaceTypes, ThreadTypes,
     JobsAccounted
<1>6. OwnerInv'
  BY <1>1, <1>2 DEF JobInv, TypeOK, PoolTypes, PlaceTypes, ThreadTypes,
     OwnerInv, Owns, Launches, HasClaimed
<1>7. ThreadInv'
  BY <1>1, <1>2 DEF JobInv, TypeOK, PoolTypes, PlaceTypes, ThreadTypes,
     ThreadInv, Alive
<1>8. IdInv'
  <2>1. ASSUME NEW w \in Slots
        PROVE  id'[w] < nextId' /\ (id'[w] = 0 <=> state'[w] = "FREE")
    BY <1>1, <1>2 DEF JobInv, IdInv, TypeOK, PoolTypes
  <2>2. ASSUME NEW w \in Slots, state'[w] = "LAUNCHING"
        PROVE  ~cancel'[w] /\ id'[w] \notin killed'
    BY <2>2, <1>1, <1>2 DEF JobInv, IdInv, TypeOK, PoolTypes, JobTypes
  <2>3. \A n \in announced' \cup killed' : n < nextId'
    BY <1>1, <1>2 DEF JobInv, IdInv, TypeOK, PoolTypes, JobTypes
  <2> QED
    BY <2>1, <2>2, <2>3 DEF IdInv
<1>9. LockInv'
  BY <1>1, <1>2 DEF JobInv, TypeOK, PlaceTypes, LockType, LockInv, Terminal
<1> QED
  BY <1>3, <1>4, <1>5, <1>6, <1>7, <1>8, <1>9 DEF JobInv

\* A launcher takes a free slot.
LEMMA LaunchClaimInv ==
  ASSUME JobInv, NEW s \in Shells, LaunchClaim(s)
  PROVE  JobInv'
<1> USE ActorFacts DEF LaunchClaim, Lowest, FreeSlots, InstReset, poolVars,
                       cancelVars, threadVars, Goto
<1>1. PICK i \in Slots :
          /\ state[i] = "FREE"
          /\ state' = [state EXCEPT ![i] = "LAUNCHING"]
          /\ id' = [id EXCEPT ![i] = nextId]
          /\ InstReset(i, s)
          /\ registered' = registered \cup {i}
          /\ at' = [at EXCEPT ![s] = i]
  OBVIOUS
<1>2. /\ pc[i] = "none" /\ i # s /\ i \notin created /\ ~Owns(s)
      /\ nextId \in Ids
  BY <1>1 DEF JobInv, TypeOK, PoolTypes, Ids, ThreadInv, Alive, Owns,
     Launches, HasClaimed
<1>3. TypeOK'
  <2>1. PoolTypes'
    BY <1>1, <1>2 DEF JobInv, TypeOK, PoolTypes
  <2>2. JobTypes'
    BY <1>1, <1>2 DEF JobInv, TypeOK, JobTypes, PoolTypes
  <2>3. ThreadTypes'
    BY <1>1, <1>2 DEF JobInv, TypeOK, ThreadTypes
  <2>4. LockType'
    BY <1>1, <1>2 DEF JobInv, TypeOK, LockType
  <2>5. PlaceTypes'
    BY <1>1, <1>2 DEF JobInv, TypeOK, PlaceTypes, Places
  <2> QED
    BY <2>1, <2>2, <2>3, <2>4, <2>5 DEF TypeOK
<1>4. KillHitsItsJob'
  BY <1>1, <1>2 DEF JobInv, TypeOK, JobTypes, PoolTypes, KillHitsItsJob
<1>5. JobsAccounted'
  <2>1. ASSUME NEW n \in 1 .. nextId' - 1
        PROVE  n \in announced' <=> ~\E j \in Slots : id'[j] = n
    <3>1. CASE n = nextId
      <4>1. n \notin announced
        BY <3>1, <1>1, <1>2 DEF JobInv, IdInv
      <4> QED
        BY <3>1, <4>1, <1>1, <1>2 DEF JobInv, TypeOK, PoolTypes
    <3>2. CASE n # nextId
      <4>1. n \in 1 .. nextId - 1
        BY <2>1, <3>2, <1>1, <1>2
      <4>2. n \in announced <=> ~\E j \in Slots : id[j] = n
        BY <4>1 DEF JobInv, JobsAccounted
      <4>3. \A j \in Slots : id'[j] = n <=> id[j] = n
        BY <3>2, <4>1, <1>1, <1>2 DEF JobInv, TypeOK, PoolTypes, IdInv
      <4> QED
        BY <4>2, <4>3
    <3> QED
      BY <3>1, <3>2
  <2>2. ASSUME NEW k \in Slots, NEW j \in Slots, id'[k] = id'[j], id'[k] # 0
        PROVE  k = j
    <3>1. id[k] # nextId /\ id[j] # nextId
      BY <1>1, <1>2 DEF JobInv, IdInv
    <3> QED
      BY <2>2, <3>1, <1>1, <1>2 DEF JobInv, TypeOK, PoolTypes, JobsAccounted
  <2>3. ASSUME NEW w \in Slots, pc'[w] \notin {"none", "return"}
        PROVE  w \in registered' /\ state'[w] \in {"LAUNCHING", "RUNNING"}
    BY <2>3, <1>1, <1>2 DEF JobInv, TypeOK, PoolTypes, PlaceTypes, JobsAccounted
  <2> QED
    BY <2>1, <2>2, <2>3 DEF JobsAccounted
<1>6. OwnerInv'
  BY <1>1, <1>2 DEF JobInv, TypeOK, PoolTypes, PlaceTypes, ThreadTypes,
     OwnerInv, Owns, Launches, HasClaimed
<1>7. ThreadInv'
  BY <1>1, <1>2 DEF JobInv, TypeOK, PoolTypes, PlaceTypes, ThreadTypes,
     ThreadInv, Alive
<1>8. IdInv'
  <2>1. \A n \in announced \cup killed : n < nextId
    BY DEF JobInv, IdInv
  <2>2. ASSUME NEW w \in Slots
        PROVE  id'[w] < nextId' /\ (id'[w] = 0 <=> state'[w] = "FREE")
    <3>1. CASE w = i
      BY <3>1, <1>1, <1>2 DEF JobInv, TypeOK, PoolTypes
    <3>2. CASE w # i
      <4>1. id'[w] = id[w] /\ state'[w] = state[w]
        BY <3>2, <1>1, <1>2 DEF JobInv, TypeOK, PoolTypes
      <4>2. id[w] < nextId /\ (id[w] = 0 <=> state[w] = "FREE")
        BY DEF JobInv, IdInv
      <4>3. id[w] \in Nat /\ nextId \in Nat
        BY IdsAreNumbers DEF JobInv
      <4> QED
        BY <4>1, <4>2, <4>3
    <3> QED
      BY <3>1, <3>2
  <2>3. ASSUME NEW w \in Slots, state'[w] = "LAUNCHING"
        PROVE  ~cancel'[w] /\ id'[w] \notin killed'
    <3>1. nextId \notin killed
      BY <2>1, <1>1, <1>2
    <3>2. CASE w = i
      BY <3>1, <3>2, <1>1, <1>2 DEF JobInv, TypeOK, PoolTypes, JobTypes, InstReset
    <3>3. CASE w # i
      BY <2>3, <3>3, <1>1, <1>2 DEF JobInv, IdInv, TypeOK, PoolTypes, JobTypes, InstReset
    <3> QED
      BY <3>2, <3>3
  <2>4. \A n \in announced' \cup killed' : n < nextId'
    BY <2>1, <1>1, <1>2 DEF JobInv, TypeOK, PoolTypes, JobTypes
  <2> QED
    BY <2>2, <2>3, <2>4 DEF IdInv
<1>9. LockInv'
  BY <1>1, <1>2 DEF JobInv, TypeOK, PlaceTypes, LockType, LockInv, Terminal
<1> QED
  BY <1>3, <1>4, <1>5, <1>6, <1>7, <1>8, <1>9 DEF JobInv

\* A launcher creates the thread, which may run at once.
LEMMA LaunchCreateInv ==
  ASSUME JobInv, NEW s \in Shells, LaunchCreate(s)
  PROVE  JobInv'
<1> USE ActorFacts DEF LaunchCreate, poolVars, cancelVars, threadVars, Goto
<1>1. /\ at[s] \in Slots /\ at[s] + 1 \in 1 .. NSlots + 1 /\ id[at[s]] \in Ids
      /\ \A b \in Actors : Owns(b) /\ at[b] = at[s] => b = s
      /\ \A i \in Slots : id[i] = id[at[s]] => i = at[s]
  BY OwnerFacts DEF Owns, Launches
<1>2. /\ pc[at[s]] = "none" /\ at[s] # s /\ state[at[s]] = "LAUNCHING"
      /\ at[s] \in registered \ created
  BY <1>1 DEF JobInv, OwnerInv, ThreadInv, Alive, Owns, Launches
<1>3. TypeOK'
  <2>1. PoolTypes'
    BY <1>1, <1>2 DEF JobInv, TypeOK, PoolTypes
  <2>2. JobTypes'
    BY <1>1, <1>2 DEF JobInv, TypeOK, JobTypes, PoolTypes
  <2>3. ThreadTypes'
    BY <1>1, <1>2 DEF JobInv, TypeOK, ThreadTypes
  <2>4. LockType'
    BY <1>1, <1>2 DEF JobInv, TypeOK, LockType
  <2>5. PlaceTypes'
    BY <1>1, <1>2 DEF JobInv, TypeOK, PlaceTypes, Places
  <2> QED
    BY <2>1, <2>2, <2>3, <2>4, <2>5 DEF TypeOK
<1>4. KillHitsItsJob'
  BY <1>1, <1>2 DEF JobInv, TypeOK, JobTypes, PoolTypes, KillHitsItsJob
<1>5. JobsAccounted'
  BY <1>1, <1>2 DEF JobInv, TypeOK, PoolTypes, PlaceTypes, ThreadTypes,
     JobsAccounted
<1>6. OwnerInv'
  BY <1>1, <1>2 DEF JobInv, TypeOK, PoolTypes, PlaceTypes, ThreadTypes,
     OwnerInv, Owns, Launches, HasClaimed
<1>7. ThreadInv'
  BY <1>1, <1>2 DEF JobInv, TypeOK, PoolTypes, PlaceTypes, ThreadTypes,
     ThreadInv, Alive
<1>8. IdInv'
  BY <1>1, <1>2 DEF JobInv, TypeOK, PoolTypes, JobTypes, IdInv
<1>9. LockInv'
  <2> SUFFICES ASSUME NEW h \in Shells, lock'[h] # Nobody
               PROVE  pc'[lock'[h]] = "send" /\ Terminal(lock[h])' = h
    BY DEF LockInv
  <2>1. lock[h] \in Actors /\ pc[lock[h]] = "send" /\ Terminal(lock[h]) = h
    BY DEF JobInv, TypeOK, LockType, LockInv
  <2>2. lock[h] # s /\ lock[h] # at[s]
    BY <2>1, <1>1, <1>2
  <2>3. Terminal(lock[h])' = h
    BY <2>1 DEF Terminal
  <2> QED
    BY <2>1, <2>2, <2>3, <1>1, <1>2 DEF JobInv, TypeOK, PlaceTypes
<1> QED
  BY <1>3, <1>4, <1>5, <1>6, <1>7, <1>8, <1>9 DEF JobInv

\* A launcher that gets no thread gives slot and id up.
LEMMA LaunchRefusedInv ==
  ASSUME JobInv, NEW s \in Shells, LaunchRefused(s)
  PROVE  JobInv'
<1> USE ActorFacts DEF LaunchRefused, Say, Done, poolVars, cancelVars,
                       threadVars, Goto
<1>1. /\ at[s] \in Slots /\ at[s] + 1 \in 1 .. NSlots + 1 /\ id[at[s]] \in Ids
      /\ \A b \in Actors : Owns(b) /\ at[b] = at[s] => b = s
      /\ \A i \in Slots : id[i] = id[at[s]] => i = at[s]
  BY OwnerFacts DEF Owns, Launches
<1>2. /\ pc[at[s]] = "none" /\ at[s] # s /\ state[at[s]] = "LAUNCHING"
      /\ at[s] \notin created
  BY <1>1 DEF JobInv, OwnerInv, ThreadInv, Alive, Owns, Launches
<1>3. TypeOK'
  <2>1. PoolTypes'
    BY <1>1, <1>2 DEF JobInv, TypeOK, PoolTypes
  <2>2. JobTypes'
    BY <1>1, <1>2 DEF JobInv, TypeOK, JobTypes, PoolTypes
  <2>3. ThreadTypes'
    BY <1>1, <1>2 DEF JobInv, TypeOK, ThreadTypes
  <2>4. LockType'
    BY <1>1, <1>2 DEF JobInv, TypeOK, LockType
  <2>5. PlaceTypes'
    BY <1>1, <1>2 DEF JobInv, TypeOK, PlaceTypes, Places
  <2> QED
    BY <2>1, <2>2, <2>3, <2>4, <2>5 DEF TypeOK
<1>4. KillHitsItsJob'
  BY <1>1, <1>2 DEF JobInv, TypeOK, JobTypes, PoolTypes, KillHitsItsJob
<1>5. JobsAccounted'
  BY <1>1, <1>2 DEF JobInv, TypeOK, PoolTypes, PlaceTypes, ThreadTypes,
     JobsAccounted
<1>6. OwnerInv'
  BY <1>1, <1>2 DEF JobInv, TypeOK, PoolTypes, PlaceTypes, ThreadTypes,
     OwnerInv, Owns, Launches, HasClaimed
<1>7. ThreadInv'
  BY <1>1, <1>2 DEF JobInv, TypeOK, PoolTypes, PlaceTypes, ThreadTypes,
     ThreadInv, Alive
<1>8. IdInv'
  <2>1. ASSUME NEW w \in Slots
        PROVE  id'[w] < nextId' /\ (id'[w] = 0 <=> state'[w] = "FREE")
    BY <1>1, <1>2 DEF JobInv, IdInv, TypeOK, PoolTypes
  <2>2. ASSUME NEW w \in Slots, state'[w] = "LAUNCHING"
        PROVE  ~cancel'[w] /\ id'[w] \notin killed'
    BY <2>2, <1>1, <1>2 DEF JobInv, IdInv, TypeOK, PoolTypes, JobTypes
  <2>3. \A n \in announced' \cup killed' : n < nextId'
    BY <1>1, <1>2 DEF JobInv, IdInv, TypeOK, PoolTypes, JobTypes
  <2> QED
    BY <2>1, <2>2, <2>3 DEF IdInv
<1>9. LockInv'
  BY <1>1, <1>2 DEF JobInv, TypeOK, PlaceTypes, LockType, LockInv, Terminal
<1> QED
  BY <1>3, <1>4, <1>5, <1>6, <1>7, <1>8, <1>9 DEF JobInv

\* A launcher marks its job as running, killed by nobody so far.
LEMMA LaunchStartedInv ==
  ASSUME JobInv, NEW s \in Shells, LaunchStarted(s)
  PROVE  JobInv'
<1> USE ActorFacts DEF LaunchStarted, Say, Done, poolVars, cancelVars,
                       threadVars, Goto
<1>1. /\ at[s] \in Slots /\ at[s] + 1 \in 1 .. NSlots + 1 /\ id[at[s]] \in Ids
      /\ \A b \in Actors : Owns(b) /\ at[b] = at[s] => b = s
      /\ \A i \in Slots : id[i] = id[at[s]] => i = at[s]
  BY OwnerFacts DEF Owns, Launches
<1>2. /\ at[s] # s /\ state[at[s]] = "LAUNCHING"
      /\ at[s] \in created
  BY <1>1 DEF JobInv, OwnerInv, Owns, Launches
<1>3. TypeOK'
  <2>1. PoolTypes'
    BY <1>1, <1>2 DEF JobInv, TypeOK, PoolTypes
  <2>2. JobTypes'
    BY <1>1, <1>2 DEF JobInv, TypeOK, JobTypes, PoolTypes
  <2>3. ThreadTypes'
    BY <1>1, <1>2 DEF JobInv, TypeOK, ThreadTypes
  <2>4. LockType'
    BY <1>1, <1>2 DEF JobInv, TypeOK, LockType
  <2>5. PlaceTypes'
    BY <1>1, <1>2 DEF JobInv, TypeOK, PlaceTypes, Places
  <2> QED
    BY <2>1, <2>2, <2>3, <2>4, <2>5 DEF TypeOK
<1>4. KillHitsItsJob'
  <2> SUFFICES ASSUME NEW w \in Slots, state'[w] = "RUNNING"
               PROVE  cancel'[w] <=> id'[w] \in killed'
    BY DEF KillHitsItsJob
  <2>1. CASE w = at[s]
    BY <2>1, <1>1, <1>2 DEF JobInv, IdInv
  <2>2. CASE w # at[s]
    <3>1. state[w] = "RUNNING"
      BY <2>2, <1>1, <1>2 DEF JobInv, TypeOK, PoolTypes
    <3> QED
      BY <3>1 DEF JobInv, KillHitsItsJob
  <2> QED
    BY <2>1, <2>2
<1>5. JobsAccounted'
  BY <1>1, <1>2 DEF JobInv, TypeOK, PoolTypes, PlaceTypes, ThreadTypes,
     JobsAccounted
<1>6. OwnerInv'
  BY <1>1, <1>2 DEF JobInv, TypeOK, PoolTypes, PlaceTypes, ThreadTypes,
     OwnerInv, Owns, Launches, HasClaimed
<1>7. ThreadInv'
  BY <1>1, <1>2 DEF JobInv, TypeOK, PoolTypes, PlaceTypes, ThreadTypes,
     ThreadInv, Alive
<1>8. IdInv'
  BY <1>1, <1>2 DEF JobInv, TypeOK, PoolTypes, JobTypes, IdInv
<1>9. LockInv'
  BY <1>1, <1>2 DEF JobInv, TypeOK, PlaceTypes, LockType, LockInv, Terminal
<1> QED
  BY <1>3, <1>4, <1>5, <1>6, <1>7, <1>8, <1>9 DEF JobInv

------------------------------------------------------------------------------
(* The other steps move one actor, which neither launches nor reaps then,  *)
(* or goes on reaping what it deleted; no thread begins or ends.           *)

Quiet(a) ==
  /\ \A b \in Actors \ {a} : pc'[b] = pc[b] /\ at'[b] = at[b] /\ after'[b] = after[b]
  /\ ~Launches(a) /\ ~Launches(a)' /\ pc[a] # "delete" /\ pc'[a] # "delete"
  /\ HasClaimed(a)' => HasClaimed(a) /\ at'[a] = at[a]
  /\ a \in Slots => pc[a] \notin {"none", "return"} /\ pc'[a] \notin {"none", "return"}
  /\ UNCHANGED <<poolVars, threadVars, fg, registered>>

\* A quiet step keeps slots, threads and ids as they are.
LEMMA QuietKeeps ==
  ASSUME JobInv, NEW a \in Actors, Quiet(a)
  PROVE  JobsAccounted' /\ OwnerInv' /\ ThreadInv'
<1> USE ActorFacts DEF Quiet, poolVars, threadVars
<1>1. JobsAccounted'
  BY DEF JobInv, JobsAccounted
<1>2. ThreadInv'
  BY DEF JobInv, ThreadInv, Alive
<1>3. ASSUME NEW b \in Actors, b # a
      PROVE  /\ Launches(b)' <=> Launches(b)
             /\ HasClaimed(b)' <=> HasClaimed(b)
  BY <1>3 DEF Launches, HasClaimed
<1>4. ASSUME NEW b \in Actors, Owns(b)'
      PROVE  Owns(b) /\ at'[b] = at[b]
  BY <1>3, <1>4 DEF Owns
<1>5. OwnerInv'
  <2>1. ASSUME NEW b \in Actors, NEW c \in Actors, Owns(b)', Owns(c)', at'[b] = at'[c]
        PROVE  b = c
    BY <2>1, <1>4 DEF JobInv, OwnerInv
  <2>2. ASSUME NEW b \in Actors
        PROVE  /\ Owns(b)' => at'[b] \in Slots
               /\ Launches(b)' => b \in Shells /\ state'[at'[b]] = "LAUNCHING"
               /\ HasClaimed(b)' => state'[at'[b]] = "REAPING"
    BY <1>3, <1>4 DEF JobInv, OwnerInv, Owns
  <2>3. ASSUME NEW b \in Actors
        PROVE  /\ pc'[b] = "create" => at'[b] \in registered' \ created'
               /\ pc'[b] \in {"started", "delete"} => at'[b] \in created'
               /\ HasClaimed(b)' /\ pc'[b] # "delete"
                    => at'[b] \notin created' \cup registered'
    <3>1. CASE b = a
      BY <3>1 DEF JobInv, OwnerInv, Launches
    <3>2. CASE b # a
      BY <3>2, <1>3 DEF JobInv, OwnerInv
    <3> QED
      BY <3>1, <3>2
  <2> QED
    BY <2>1, <2>2, <2>3 DEF OwnerInv
<1> QED
  BY <1>1, <1>2, <1>5

\* Printing keeps the types.
LEMMA OutputTypes ==
  ASSUME JobInv, NEW a \in Actors, Lock(a) \/ Unlock(a)
  PROVE  TypeOK'
<1> USE ActorFacts DEF poolVars, cancelVars, threadVars, actorVars, JobInv, TypeOK,
                       Lock, Unlock, Goto
<1>1. PoolTypes'
  BY DEF PoolTypes
<1>2. JobTypes'
  BY DEF JobTypes, PoolTypes
<1>3. ThreadTypes'
  BY DEF ThreadTypes, PlaceTypes
<1>4. LockType'
  BY DEF LockType
<1>5. PlaceTypes'
  BY DEF PlaceTypes, Places
<1> QED
  BY <1>1, <1>2, <1>3, <1>4, <1>5

\* So do lines, segments and kills.
LEMMA LineTypes ==
  ASSUME JobInv, NEW a \in Actors,
         \/ Killing(a) \/ SegmentJobs(a)
         \/ SegmentLaunch(a) \/ EndLine(a) \/ Enter(a)
  PROVE  TypeOK'
<1> USE ActorFacts DEF poolVars, cancelVars, threadVars, actorVars, JobInv, TypeOK,
                       Killing, KillFound, KillNoSuchJob, SegmentJobs, SegmentLaunch,
                       EndLine, Enter, ReapFrom, Matches, Goto, Say, Done
<1>1. PoolTypes'
  BY DEF PoolTypes
<1>2. JobTypes'
  BY DEF JobTypes, PoolTypes
<1>3. ThreadTypes'
  BY DEF ThreadTypes, PlaceTypes
<1>4. LockType'
  BY DEF LockType
<1>5. PlaceTypes'
  BY DEF PlaceTypes, Places
<1> QED
  BY <1>1, <1>2, <1>3, <1>4, <1>5

\* And so do the workers.
LEMMA WorkTypes ==
  ASSUME JobInv, NEW w \in Slots, Working(w) \/ SleepEnds(w)
  PROVE  TypeOK'
<1> USE ActorFacts DEF poolVars, cancelVars, threadVars, actorVars, JobInv, TypeOK,
                       Working, SegmentWork, WorkOn, WorkCancelled, SleepKilled,
                       SleepEnds, Unregister, Return, SendPolls, Goto, Say
<1>1. PoolTypes'
  BY DEF PoolTypes
<1>2. JobTypes'
  BY DEF JobTypes, PoolTypes
<1>3. ThreadTypes'
  BY DEF ThreadTypes, PlaceTypes
<1>4. LockType'
  BY DEF LockType
<1>5. PlaceTypes'
  BY DEF PlaceTypes, Places
<1> QED
  BY <1>1, <1>2, <1>3, <1>4, <1>5

\* A step that cancels nobody keeps what is known of ids and kills.
LEMMA KillsKept ==
  ASSUME JobInv, UNCHANGED <<poolVars, cancel, killed>>
  PROVE  KillHitsItsJob' /\ IdInv'
BY DEF JobInv, KillHitsItsJob, IdInv, poolVars

\* The locks of others stay theirs.
LEMMA LocksKept ==
  ASSUME JobInv, NEW a \in Actors, UNCHANGED <<lock, fg>>,
         pc[a] # "send", \A b \in Actors \ {a} : pc'[b] = pc[b]
  PROVE  LockInv'
BY ActorFacts DEF JobInv, TypeOK, LockType, LockInv, Terminal

\* Output locks are taken and given back.
LEMMA OutputInv ==
  ASSUME JobInv, NEW a \in Actors, Lock(a) \/ Unlock(a)
  PROVE  JobInv'
<1> USE ActorFacts DEF Lock, Unlock, Goto, poolVars, cancelVars, threadVars
<1>1. TypeOK'
  BY OutputTypes
<1>2. Quiet(a)
  BY DEF Quiet, Launches, HasClaimed, JobInv, TypeOK, PlaceTypes
<1>3. KillHitsItsJob' /\ IdInv'
  BY KillsKept
<1>4. LockInv'
  <2> SUFFICES ASSUME NEW s \in Shells, lock'[s] # Nobody
               PROVE  pc'[lock'[s]] = "send" /\ Terminal(lock[s])' = s
    BY DEF LockInv, Terminal
  <2>1. \A b \in Actors : Terminal(b)' = Terminal(b)
    BY DEF Terminal
  <2>2. CASE lock'[s] = lock[s]
    <3>1. lock[s] \in Actors /\ pc[lock[s]] = "send" /\ Terminal(lock[s]) = s
      BY <2>2 DEF JobInv, TypeOK, LockType, LockInv
    <3>2. CASE lock[s] = a
      BY <2>2, <3>1, <3>2 DEF JobInv, TypeOK, LockType
    <3>3. CASE lock[s] # a
      <4>1. pc'[lock[s]] = "send"
        BY <3>1, <3>3 DEF JobInv, TypeOK, PlaceTypes
      <4>2. Terminal(lock[s])' = s
        BY <2>2, <3>1 DEF Terminal
      <4> QED
        BY <2>2, <4>1, <4>2
    <3> QED
      BY <3>2, <3>3
  <2>3. CASE lock'[s] # lock[s]
    <3>1. lock'[s] = a /\ Terminal(a) = s /\ pc'[a] = "send"
      BY <2>3 DEF JobInv, TypeOK, LockType, PlaceTypes
    <3> QED
      BY <2>1, <3>1 DEF Terminal
  <2> QED
    BY <2>2, <2>3
<1> QED
  BY <1>1, <1>2, <1>3, <1>4, QuietKeeps DEF JobInv

\* A reaper finds no more.
LEMMA ReapEndInv ==
  ASSUME JobInv, NEW a \in Actors, ReapEnd(a)
  PROVE  JobInv'
<1> USE ActorFacts DEF ReapEnd, Goto, Say, Done, poolVars, cancelVars, threadVars
<1>1. TypeOK'
  <2>1. PoolTypes' /\ JobTypes' /\ ThreadTypes' /\ LockType'
    BY DEF JobInv, TypeOK, PoolTypes, JobTypes, ThreadTypes, LockType
  <2>2. PlaceTypes'
    BY DEF JobInv, TypeOK, PlaceTypes, Places
  <2> QED
    BY <2>1, <2>2 DEF TypeOK
<1>2. Quiet(a)
  BY DEF Quiet, Launches, HasClaimed, JobInv, TypeOK, PlaceTypes
<1>3. KillHitsItsJob' /\ IdInv'
  BY KillsKept
<1>4. LockInv'
  BY LocksKept DEF JobInv, TypeOK, PlaceTypes
<1> QED
  BY <1>1, <1>2, <1>3, <1>4, QuietKeeps DEF JobInv

\* A launcher finds no slot.
LEMMA LaunchTooManyInv ==
  ASSUME JobInv, NEW s \in Shells, LaunchTooMany(s)
  PROVE  JobInv'
<1> USE ActorFacts DEF LaunchTooMany, Goto, Say, Done, poolVars, cancelVars, threadVars
<1>1. TypeOK'
  <2>1. PoolTypes' /\ JobTypes' /\ ThreadTypes' /\ LockType'
    BY DEF JobInv, TypeOK, PoolTypes, JobTypes, ThreadTypes, LockType
  <2>2. PlaceTypes'
    BY DEF JobInv, TypeOK, PlaceTypes, Places
  <2> QED
    BY <2>1, <2>2 DEF TypeOK
<1>2. Quiet(s)
  BY DEF Quiet, Launches, HasClaimed, JobInv, TypeOK, PlaceTypes
<1>3. KillHitsItsJob' /\ IdInv'
  BY KillsKept
<1>4. LockInv'
  BY LocksKept DEF JobInv, TypeOK, PlaceTypes
<1> QED
  BY <1>1, <1>2, <1>3, <1>4, QuietKeeps DEF JobInv

\* Lines and segments, but for kills that find their job.
LEMMA LineInv ==
  ASSUME JobInv, NEW a \in Actors,
         \/ KillNoSuchJob(a) \/ SegmentJobs(a)
         \/ a \in Shells /\ (SegmentLaunch(a) \/ EndLine(a) \/ Enter(a))
  PROVE  JobInv'
<1> USE ActorFacts DEF KillNoSuchJob, SegmentJobs, SegmentLaunch, EndLine, Enter, ReapFrom,
                       Goto, Say, Done, poolVars, cancelVars, threadVars
<1>1. TypeOK'
  BY LineTypes DEF Killing
<1>2. Quiet(a)
  BY DEF Quiet, Launches, HasClaimed, JobInv, TypeOK, PlaceTypes
<1>3. KillHitsItsJob' /\ IdInv'
  BY KillsKept
<1>4. LockInv'
  BY LocksKept DEF JobInv, TypeOK, PlaceTypes
<1> QED
  BY <1>1, <1>2, <1>3, <1>4, QuietKeeps DEF JobInv

\* A kill that finds its job marks that one and no other.
LEMMA KillFoundInv ==
  ASSUME JobInv, NEW a \in Actors, KillFound(a)
  PROVE  JobInv'
<1> USE ActorFacts DEF Matches, Goto, Say, Done, poolVars, cancelVars, threadVars
<1>1. TypeOK'
  BY LineTypes DEF Killing
<1>2. Quiet(a)
  BY DEF KillFound, Quiet, Launches, HasClaimed, JobInv, TypeOK, PlaceTypes
<1>3. PICK i \in Slots : /\ state[i] = "RUNNING" /\ id[i] \in Ids
                         /\ cancel' = [cancel EXCEPT ![i] = TRUE]
                         /\ killed' = killed \cup {id[i]}
  BY DEF KillFound
<1>4. UNCHANGED <<state, id, nextId, announced>>
  BY DEF KillFound
<1>5. ASSUME NEW w \in Slots, w # i
      PROVE  /\ cancel'[w] <=> cancel[w]
             /\ state[w] # "FREE" => (id[w] \in killed' <=> id[w] \in killed)
  <2>1. state[w] # "FREE" => id[w] # id[i]
    BY <1>3, <1>5 DEF JobInv, JobsAccounted, IdInv
  <2> QED
    BY <1>3, <1>5, <2>1 DEF JobInv, TypeOK, JobTypes
<1>6. cancel'[i] /\ id[i] \in killed'
  BY <1>3 DEF JobInv, TypeOK, JobTypes
<1>7. KillHitsItsJob'
  BY <1>4, <1>5, <1>6 DEF JobInv, KillHitsItsJob
<1>8. IdInv'
  <2>1. ASSUME NEW w \in Slots, state[w] = "LAUNCHING"
        PROVE  ~cancel'[w] /\ id[w] \notin killed'
    BY <1>3, <1>5, <2>1 DEF JobInv, IdInv
  <2>2. ASSUME NEW n \in announced \cup killed'
        PROVE  n < nextId
    BY <1>3, <2>2 DEF JobInv, IdInv
  <2>3. \A w \in Slots : id[w] < nextId /\ (id[w] = 0 <=> state[w] = "FREE")
    BY DEF JobInv, IdInv
  <2> QED
    BY <1>4, <2>1, <2>2, <2>3 DEF IdInv
<1>9. LockInv'
  BY LocksKept DEF KillFound, JobInv, TypeOK, PlaceTypes
<1> QED
  BY <1>1, <1>2, <1>7, <1>8, <1>9, QuietKeeps DEF JobInv

\* A worker at work.
LEMMA WorkInv ==
  ASSUME JobInv, NEW w \in Slots,
         \/ SegmentWork(w) \/ WorkOn(w) \/ WorkCancelled(w) \/ SleepKilled(w)
         \/ SleepEnds(w)
  PROVE  JobInv'
<1> USE ActorFacts DEF SegmentWork, WorkOn, WorkCancelled, SleepKilled, SleepEnds,
                       Goto, Say, poolVars, cancelVars, threadVars
<1>1. TypeOK'
  BY WorkTypes DEF Working
<1>2. Quiet(w)
  BY DEF Quiet, Launches, HasClaimed, JobInv, TypeOK, PlaceTypes
<1>3. KillHitsItsJob' /\ IdInv'
  BY KillsKept
<1>4. LockInv'
  BY LocksKept DEF JobInv, TypeOK, PlaceTypes
<1> QED
  BY <1>1, <1>2, <1>3, <1>4, QuietKeeps DEF JobInv

\* A worker looks for a kill while it waits for room.
LEMMA SendPollsInv ==
  ASSUME JobInv, NEW w \in Slots, SendPolls(w)
  PROVE  JobInv'
<1> USE DEF SendPolls, poolVars, threadVars, actorVars
<1>1. TypeOK'
  BY WorkTypes DEF Working
<1>2. KillHitsItsJob' /\ IdInv'
  BY KillsKept
<1>3. JobsAccounted' /\ OwnerInv'
  BY DEF JobInv, JobsAccounted, OwnerInv, Owns, Launches, HasClaimed
<1>4. ThreadInv' /\ LockInv'
  BY DEF JobInv, ThreadInv, LockInv, Alive, Terminal
<1> QED
  BY <1>1, <1>2, <1>3, <1>4 DEF JobInv

\* A worker leaves the registry, while its slot is still taken.
LEMMA UnregisterInv ==
  ASSUME JobInv, NEW w \in Slots, Unregister(w)
  PROVE  JobInv'
<1> USE ActorFacts DEF Unregister, Goto, poolVars, cancelVars, threadVars
<1>1. TypeOK'
  BY WorkTypes DEF Working
<1>2. Alive(w) /\ \A b \in Actors : pc[b] = "create" => at[b] # w
  BY DEF JobInv, ThreadInv, OwnerInv, Alive
<1>3. ASSUME NEW b \in Actors
      PROVE  /\ Launches(b)' <=> Launches(b)
             /\ HasClaimed(b)' <=> HasClaimed(b)
             /\ pc'[b] \in {"create", "started", "delete"} <=>
                  pc[b] \in {"create", "started", "delete"}
  BY DEF JobInv, TypeOK, PlaceTypes, Launches, HasClaimed
<1>4. KillHitsItsJob' /\ IdInv'
  BY KillsKept
<1>5. JobsAccounted'
  BY DEF JobInv, TypeOK, PlaceTypes, JobsAccounted
<1>6. OwnerInv'
  BY <1>2 DEF JobInv, TypeOK, PlaceTypes, OwnerInv, Owns, Launches, HasClaimed
<1>7. ThreadInv'
  BY <1>2 DEF JobInv, TypeOK, PlaceTypes, ThreadInv, Alive
<1>8. LockInv'
  BY LocksKept DEF JobInv, TypeOK, PlaceTypes
<1> QED
  BY <1>1, <1>4, <1>5, <1>6, <1>7, <1>8 DEF JobInv

\* A worker returns.
LEMMA ReturnInv ==
  ASSUME JobInv, NEW w \in Slots, Return(w)
  PROVE  JobInv'
<1> USE ActorFacts DEF Return, Goto, poolVars, cancelVars, threadVars
<1>1. TypeOK'
  BY WorkTypes DEF Working
<1>2. KillHitsItsJob' /\ IdInv'
  BY KillsKept
<1>3. JobsAccounted'
  BY DEF JobInv, TypeOK, PlaceTypes, JobsAccounted
<1>4. OwnerInv'
  BY DEF JobInv, TypeOK, PlaceTypes, OwnerInv, Owns, Launches, HasClaimed
<1>5. ThreadInv'
  BY DEF JobInv, TypeOK, PlaceTypes, ThreadTypes, ThreadInv, Alive
<1>6. LockInv'
  BY LocksKept DEF JobInv, TypeOK, PlaceTypes
<1> QED
  BY <1>1, <1>2, <1>3, <1>4, <1>5, <1>6 DEF JobInv

------------------------------------------------------------------------------
(* The invariant, and what follows from it.                                *)

\* The invariant holds when the firmware starts.
LEMMA JobInit ==
  ASSUME Init
  PROVE  JobInv
<1> USE ActorFacts DEF Init
<1>1. TypeOK
  <2>1. PoolTypes /\ JobTypes /\ ThreadTypes /\ LockType
    BY DEF PoolTypes, JobTypes, ThreadTypes, LockType
  <2>2. PlaceTypes
    BY DEF PlaceTypes, Places
  <2> QED
    BY <2>1, <2>2 DEF TypeOK
<1>2. KillHitsItsJob /\ JobsAccounted
  BY DEF KillHitsItsJob, JobsAccounted
<1>3. OwnerInv
  BY DEF OwnerInv, Owns, Launches, HasClaimed
<1>4. ThreadInv /\ IdInv /\ LockInv
  BY DEF ThreadInv, Alive, IdInv, LockInv
<1> QED
  BY <1>1, <1>2, <1>3, <1>4 DEF JobInv

\* Every step keeps it.
LEMMA JobStep ==
  ASSUME JobInv, [Next]_vars
  PROVE  JobInv'
<1>1. CASE UNCHANGED vars
  <2> USE <1>1 DEF vars, poolVars, cancelVars, threadVars, actorVars
  <2>1. TypeOK'
    BY DEF JobInv, TypeOK, PoolTypes, JobTypes, ThreadTypes, LockType, PlaceTypes
  <2>2. KillHitsItsJob' /\ JobsAccounted' /\ OwnerInv'
    BY DEF JobInv, KillHitsItsJob, JobsAccounted, OwnerInv, Owns, Launches, HasClaimed
  <2>3. ThreadInv' /\ IdInv' /\ LockInv'
    BY DEF JobInv, ThreadInv, Alive, IdInv, LockInv, Terminal
  <2> QED
    BY <2>1, <2>2, <2>3 DEF JobInv
<1>2. ASSUME NEW a \in Actors, Continue(a)
      PROVE  JobInv'
  <2>1. CASE Reaping(a)
    BY <2>1, ReapClaimInv, ReapDeleteInv, ReapFreeInv, ReapEndInv DEF Reaping
  <2>2. CASE Killing(a) \/ SegmentJobs(a)
    BY <2>2, KillFoundInv, LineInv DEF Killing
  <2>3. CASE a \in Shells /\ (Launching(a) \/ SegmentLaunch(a) \/ EndLine(a))
    BY <2>3, LaunchClaimInv, LaunchTooManyInv, LaunchCreateInv, LaunchRefusedInv,
       LaunchStartedInv, LineInv DEF Launching
  <2>4. CASE a \in Slots /\ Working(a)
    BY <2>4, WorkInv, SendPollsInv, UnregisterInv, ReturnInv DEF Working
  <2> QED
    BY <1>2, <2>1, <2>2, <2>3, <2>4 DEF Continue
<1>3. ASSUME NEW a \in Actors, Lock(a) \/ Sent(a) \/ SendDropped(a)
      PROVE  JobInv'
  BY <1>3, OutputInv DEF Sent, SendDropped
<1>4. ASSUME NEW s \in Shells, Enter(s)
      PROVE  JobInv'
  BY <1>4, LineInv, ActorFacts
<1>5. ASSUME NEW w \in Slots, SleepEnds(w)
      PROVE  JobInv'
  BY <1>5, WorkInv
<1> QED
  BY <1>1, <1>2, <1>3, <1>4, <1>5 DEF Next

\* So it holds always.
LEMMA JobInvariant == Spec => []JobInv
<1>1. Init => JobInv
  BY JobInit
<1>2. JobInv /\ [Next]_vars => JobInv'
  BY JobStep
<1> QED
  BY <1>1, <1>2, PTL DEF Spec

\* The variables of the pool, its threads and its shells keep their types.
THEOREM JobTypeCorrect == Spec => []TypeOK
<1>1. JobInv => TypeOK
  BY DEF JobInv
<1> QED
  BY <1>1, JobInvariant, PTL

\* The pool never pulls a thread from under itself: whoever deletes a thread
\* (cli_jobs_reap) has it alone and it has returned, a slot on offer holds
\* none, and no terminal's lock is held by a job that is gone.
THEOREM LiveThreadsStay == Spec => []NoLiveThreadReaped
<1>1. JobInv => NoLiveThreadReaped
  <2> SUFFICES ASSUME JobInv
               PROVE  NoLiveThreadReaped
    OBVIOUS
  <2>1. ASSUME NEW a \in Actors, pc[a] = "delete"
        PROVE  at[a] \in created \cap completed
    BY <2>1 DEF JobInv, OwnerInv, ThreadInv, Owns, HasClaimed
  <2>2. \A a, b \in Actors : HasClaimed(a) /\ HasClaimed(b) /\ at[a] = at[b] => a = b
    BY DEF JobInv, OwnerInv, Owns
  <2>3. \A i \in Slots : state[i] = "FREE" => i \notin created \cup registered
    BY DEF JobInv, ThreadInv
  <2>4. ASSUME NEW s \in Shells, lock[s] \in Slots
        PROVE  Alive(lock[s])
    BY <2>4, ActorFacts DEF JobInv, LockInv, ThreadInv
  <2> QED
    BY <2>1, <2>2, <2>3, <2>4 DEF NoLiveThreadReaped
<1> QED
  BY <1>1, JobInvariant, PTL

\* A kill cancels the job it names and no other, whenever it comes
\* (cli_job_kill against launch and reap).
THEOREM KillsHit == Spec => []KillHitsItsJob
<1>1. JobInv => KillHitsItsJob
  BY DEF JobInv
<1> QED
  BY <1>1, JobInvariant, PTL

\* Every id handed out is in one slot or was announced, never both, and a job
\* that can print is in the registry.
THEOREM EveryJobAccounted == Spec => []JobsAccounted
<1>1. JobInv => JobsAccounted
  BY DEF JobInv
<1> QED
  BY <1>1, JobInvariant, PTL
\* What the `shell` run checks of the pool on a small instance, for any number
\* of shells, slots and jobs (cli_job.c).
THEOREM JobsAreSound == Spec => []JobsSound
<1>1. NoLiveThreadReaped /\ KillHitsItsJob /\ JobsAccounted => JobsSound
  BY DEF JobsSound
<1> QED
  BY <1>1, LiveThreadsStay, KillsHit, EveryJobAccounted, PTL
------------------------------------------------------------------------------
(* UartConsole: the transmit ring is a FIFO.                                *)

\* The ring's index arithmetic: one wrap at most.
LEMMA WrapsOnce ==
  ASSUME NEW x \in Int, -TxSize <= x, x < 2 * TxSize
  PROVE  x % TxSize = IF x < 0 THEN x + TxSize ELSE IF x < TxSize THEN x ELSE x - TxSize
<1>1. TxSize \in Nat \ {0}
  BY UartAssumption
<1> DEFINE q == x \div TxSize
           r == x % TxSize
<1>2. q \in Int /\ r \in 0 .. TxSize - 1 /\ x = TxSize * q + r
  BY <1>1
<1> HIDE DEF q, r
<1>3. CASE q <= -2
  <2>1. TxSize * q <= -(2 * TxSize)
    BY <1>1, <1>2, <1>3
  <2> QED
    BY <1>1, <1>2, <2>1
<1>4. CASE q = -1
  <2>1. x = r - TxSize
    BY <1>1, <1>2, <1>4
  <2> QED
    BY <1>1, <1>2, <2>1 DEF r
<1>5. CASE q = 0
  <2>1. x = r
    BY <1>1, <1>2, <1>5
  <2> QED
    BY <1>1, <1>2, <2>1 DEF r
<1>6. CASE q = 1
  <2>1. x = r + TxSize
    BY <1>1, <1>2, <1>6
  <2> QED
    BY <1>1, <1>2, <2>1 DEF r
<1>7. CASE q >= 2
  <2>1. TxSize * q >= 2 * TxSize
    BY <1>1, <1>2, <1>7
  <2> QED
    BY <1>1, <1>2, <2>1
<1> QED
  BY <1>2, <1>3, <1>4, <1>5, <1>6, <1>7

\* An index that advances by less than the ring's size.
LEMMA Advances ==
  ASSUME NEW i \in 0 .. TxSize - 1, NEW n \in 0 .. TxSize - 1
  PROVE  (i + n) % TxSize = IF i + n < TxSize THEN i + n ELSE i + n - TxSize
<1> DEFINE x == i + n
<1>1. x \in Int /\ -TxSize <= x /\ x < 2 * TxSize /\ ~ x < 0
  BY UartAssumption
<1> HIDE DEF x
<1>2. x % TxSize = IF x < TxSize THEN x ELSE x - TxSize
  BY <1>1, WrapsOnce
<1> QED
  BY <1>1, <1>2, UartAssumption DEF x

\* Where the jth byte of the ring lies, and how many of them are sent.
Pos(j) == IF txTail + j - 1 < TxSize THEN txTail + j - 1 ELSE txTail + j - 1 - TxSize
Gone == chunk - hal.left
InRing == Count(txHead, txTail)

TxTypes ==
  /\ txBuf \in [0 .. TxSize - 1 -> Nat] /\ txHead \in 0 .. TxSize - 1 /\ txTail \in 0 .. TxSize - 1
  /\ chunk \in Nat /\ hal \in [pos : Nat, left : Nat] /\ inFlight \in BOOLEAN /\ (inFlight = TRUE <=> chunk > 0)
  /\ wire \in Seq(Nat) /\ accepted \in Seq(Nat)

\* What the UART sends is in the ring and does not pass its end, and the UART
\* stands behind what it has sent.
RunInv ==
  /\ hal.left <= chunk /\ chunk <= InRing
  /\ chunk > 0 => txTail + chunk <= TxSize /\ hal.pos = txTail + Gone

\* The bytes are numbered as they are accepted; the wire has the first of
\* them, the ring the others.
StreamInv ==
  /\ Len(accepted) = Len(wire) + InRing - Gone
  /\ \A k \in 1 .. Len(accepted) : accepted[k] = k
  /\ \A k \in 1 .. Len(wire) : wire[k] = k
  /\ \A j \in 1 .. InRing : j > Gone => txBuf[Pos(j)] = Len(wire) - Gone + j

RxTypes == rxBuf \in Seq({"key", "cr", "etx"}) /\ Len(rxBuf) <= RxSize - 1 /\ toSend \in Nat

TxInv == TxTypes /\ RunInv /\ StreamInv
UartInv == TxInv /\ RxTypes

LEMMA UartInitInv == UartInit => UartInv
<1> SUFFICES ASSUME UartInit PROVE UartInv
  OBVIOUS
<1>1. TxSize \in Nat \ {0, 1} /\ RxSize \in Nat \ {0, 1}
  BY UartAssumption
<1>2. TxTypes
  BY <1>1 DEF UartInit, TxTypes
<1>3. InRing = 0 /\ Gone = 0
  BY <1>1 DEF UartInit, InRing, Count, Gone
<1>4. RunInv
  BY <1>1, <1>3 DEF UartInit, RunInv
<1>5. StreamInv
  BY <1>1, <1>3 DEF UartInit, StreamInv
<1>6. RxTypes
  BY <1>1 DEF UartInit, RxTypes
<1> QED
  BY <1>2, <1>4, <1>5, <1>6 DEF UartInv, TxInv

\* The UART sends the next byte out of the ring.
LEMMA SendsNext == TxInv /\ HalSends => TxInv'
<1> SUFFICES ASSUME TxInv, HalSends PROVE TxInv'
  OBVIOUS
<1> USE DEF TxInv
<1>1. UNCHANGED <<txBuf, txHead, txTail, inFlight, chunk, accepted>> /\ hal.left > 0
  BY DEF HalSends
<1>2. hal' = [pos |-> hal.pos + 1, left |-> hal.left - 1]
  BY DEF HalSends
<1>3. hal.pos \in Nat /\ hal.left \in Nat /\ chunk \in Nat /\ TxSize \in Nat /\ txTail \in Nat /\ txHead \in Nat
  BY UartAssumption DEF TxTypes
<1>4. hal'.pos = hal.pos + 1 /\ hal'.left = hal.left - 1 /\ hal' \in [pos : Nat, left : Nat]
  BY <1>1, <1>2, <1>3
<1>5. chunk > 0 /\ hal.pos = txTail + Gone /\ txTail + chunk <= TxSize /\ hal.left <= chunk /\ chunk <= InRing
  BY <1>1, <1>3 DEF RunInv
<1>6. Gone \in Nat /\ Gone < chunk /\ Gone' = Gone + 1 /\ InRing' = InRing
  BY <1>1, <1>3, <1>4, <1>5 DEF Gone, InRing
<1>7. hal.pos < TxSize /\ Pos(Gone + 1) = hal.pos
  BY <1>3, <1>5, <1>6 DEF Pos
<1>8. InRing \in Nat
  BY <1>3, UartAssumption DEF InRing, Count, TxTypes
<1>9. Gone + 1 \in 1 .. InRing
  BY <1>3, <1>5, <1>6, <1>8
<1>10. Len(wire) \in Nat
  BY LenProperties DEF TxTypes
<1>11. txBuf[hal.pos] = Len(wire) + 1
  BY <1>3, <1>6, <1>7, <1>9, <1>10 DEF StreamInv
<1>12. wire' = Append(wire, Len(wire) + 1)
  BY <1>7, <1>11 DEF HalSends
<1>13. /\ wire' \in Seq(Nat) /\ Len(wire') = Len(wire) + 1
       /\ \A k \in 1 .. Len(wire) + 1 : wire'[k] = IF k = Len(wire) + 1 THEN Len(wire) + 1 ELSE wire[k]
  BY <1>10, <1>12, AppendProperties DEF TxTypes
<1>14. TxTypes'
  BY <1>1, <1>4, <1>13 DEF TxTypes
<1>15. RunInv'
  BY <1>1, <1>3, <1>4, <1>5, <1>6 DEF RunInv
<1>16. StreamInv'
  <2>0. Len(wire') = Len(wire) + 1 /\ Len(accepted) \in Nat /\ Len(accepted)' = Len(accepted)
    BY <1>1, <1>13, LenProperties DEF TxTypes
  <2>1. Len(accepted)' = Len(wire)' + InRing' - Gone'
    <3>1. Len(accepted) = Len(wire) + InRing - Gone
      BY DEF StreamInv
    <3> QED
      BY <1>6, <1>8, <1>10, <2>0, <3>1
  <2>2. \A k \in 1 .. Len(wire)' : wire'[k] = k
    BY <1>10, <1>13 DEF StreamInv
  <2>3. ASSUME NEW j \in 1 .. InRing', j > Gone'
        PROVE  txBuf'[Pos(j)'] = Len(wire)' - Gone' + j
    <3>1. j \in 1 .. InRing /\ j > Gone /\ Pos(j)' = Pos(j)
      BY <1>1, <1>6, <1>8, <2>3 DEF Pos
    <3>2. txBuf[Pos(j)] = Len(wire) - Gone + j
      BY <3>1 DEF StreamInv
    <3> QED
      BY <1>1, <1>6, <1>8, <1>10, <2>0, <3>1, <3>2
  <2> QED
    BY <1>1, <2>1, <2>2, <2>3 DEF StreamInv
<1> QED
  BY <1>14, <1>15, <1>16

\* tx_start_locked() starts the run that begins at the tail, if there is one.
LEMMA StartsRun ==
  ASSUME TxSize \in Nat \ {0, 1}, NEW head \in 0 .. TxSize - 1, NEW tail \in 0 .. TxSize - 1, StartTx(head, tail, FALSE),
         hal \in [pos : Nat, left : Nat], hal.left = 0
  PROVE  /\ chunk' = Contig(head, tail) /\ chunk' \in Nat /\ inFlight' \in BOOLEAN /\ (inFlight' = TRUE <=> chunk' > 0)
         /\ hal' \in [pos : Nat, left : Nat] /\ hal'.left = chunk'
         /\ chunk' > 0 => hal'.pos = tail
         /\ chunk' <= Count(head, tail) /\ tail + chunk' <= TxSize
<1>1. Contig(head, tail) \in Nat /\ Contig(head, tail) <= Count(head, tail) /\ tail + Contig(head, tail) <= TxSize
  BY DEF Contig, Count
<1>2. CASE Contig(head, tail) = 0
  <2>1. inFlight' = FALSE /\ chunk' = 0 /\ hal' = hal
    BY <1>2 DEF StartTx
  <2>2. hal' \in [pos : Nat, left : Nat] /\ hal'.left = chunk'
    BY <2>1
  <2>3. chunk' = Contig(head, tail) /\ chunk' \in Nat /\ ~ chunk' > 0
    BY <1>2, <2>1
  <2>4. chunk' <= Count(head, tail) /\ tail + chunk' <= TxSize
    BY <1>1, <2>3
  <2> QED
    BY <2>1, <2>2, <2>3, <2>4
<1>3. CASE Contig(head, tail) # 0
  <2>1. inFlight' = TRUE /\ chunk' = Contig(head, tail) /\ hal' = [pos |-> tail, left |-> Contig(head, tail)]
    BY <1>3 DEF StartTx
  <2>2. tail \in Nat /\ chunk' > 0
    BY <1>1, <1>3, <2>1
  <2>3. hal' \in [pos : Nat, left : Nat] /\ hal'.left = chunk' /\ hal'.pos = tail
    BY <1>1, <2>1, <2>2
  <2> QED
    BY <1>1, <1>3, <2>1, <2>2, <2>3
<1> QED
  BY <1>2, <1>3

\* Nothing is sent of a run that just starts, or that is none.
LEMMA NoneSent ==
  /\ chunk \in Nat /\ hal.left = chunk => Gone = 0
  /\ chunk' \in Nat /\ hal'.left = chunk' => Gone' = 0
BY DEF Gone

\* The completion frees the run, and starts the next.
LEMMA CompletesRun == TxInv /\ TxComplete => TxInv'
<1> SUFFICES ASSUME TxInv, TxComplete PROVE TxInv'
  OBVIOUS
<1> USE DEF TxInv
<1> DEFINE tail == (txTail + chunk) % TxSize
<1>1. UNCHANGED <<txBuf, txHead, accepted, wire>> /\ hal.left = 0 /\ inFlight /\ txTail' = tail /\ StartTx(txHead, tail, FALSE)
  BY DEF TxComplete
<1>2. /\ TxSize \in Nat \ {0, 1} /\ chunk \in Nat /\ txHead \in 0 .. TxSize - 1 /\ txTail \in 0 .. TxSize - 1
      /\ hal \in [pos : Nat, left : Nat] /\ chunk > 0
  BY <1>1, UartAssumption DEF TxTypes
<1>3. Gone = chunk /\ txTail + chunk <= TxSize /\ chunk <= InRing
  BY <1>1, <1>2 DEF Gone, RunInv
<1>4. tail = IF txTail + chunk < TxSize THEN txTail + chunk ELSE txTail + chunk - TxSize
  BY <1>2, <1>3, WrapsOnce
<1> HIDE DEF tail
<1>5. tail \in 0 .. TxSize - 1
  BY <1>2, <1>3, <1>4
<1>6. /\ chunk' = Contig(txHead, tail) /\ chunk' \in Nat /\ inFlight' \in BOOLEAN /\ (inFlight' = TRUE <=> chunk' > 0)
      /\ hal' \in [pos : Nat, left : Nat] /\ hal'.left = chunk'
      /\ chunk' > 0 => hal'.pos = tail
      /\ chunk' <= Count(txHead, tail) /\ tail + chunk' <= TxSize
  BY <1>1, <1>2, <1>5, StartsRun
<1>7. InRing' = Count(txHead, tail) /\ Gone' = 0
  BY <1>1, <1>6 DEF InRing, Gone
<1>8. Count(txHead, tail) = InRing - chunk /\ InRing \in Nat
  BY <1>2, <1>3, <1>4 DEF InRing, Count
<1>9. TxTypes'
  BY <1>1, <1>5, <1>6 DEF TxTypes
<1>10. RunInv'
  BY <1>1, <1>2, <1>5, <1>6, <1>7 DEF RunInv
<1>11. StreamInv'
  <2>1. Len(wire) \in Nat /\ Len(accepted) \in Nat
    BY LenProperties DEF TxTypes
  <2>2. Len(accepted)' = Len(wire)' + InRing' - Gone'
    BY <1>1, <1>2, <1>3, <1>7, <1>8, <2>1 DEF StreamInv
  <2>3. ASSUME NEW j \in 1 .. InRing'
        PROVE  txBuf'[Pos(j)'] = Len(wire)' - Gone' + j
    <3>1. j \in Int /\ j + chunk \in 1 .. InRing /\ j + chunk > Gone
      BY <1>2, <1>3, <1>7, <1>8
    <3>2. Pos(j)' = Pos(j + chunk)
      BY <1>1, <1>2, <1>3, <1>4, <1>7, <1>8, <3>1 DEF Pos, InRing, Count
    <3>3. txBuf[Pos(j + chunk)] = Len(wire) - Gone + (j + chunk)
      BY <3>1 DEF StreamInv
    <3> QED
      BY <1>1, <1>2, <1>3, <1>7, <2>1, <3>1, <3>2, <3>3
  <2> QED
    BY <1>1, <2>2, <2>3 DEF StreamInv
<1> QED
  BY <1>9, <1>10, <1>11
\* What one producer enqueues comes behind what is there, in free slots.
LEMMA EnqueuesBehind ==
  ASSUME TxInv, NEW n \in Nat, n <= Free, Enqueue(n)
  PROVE  TxInv'
<1> USE DEF TxInv
<1> DEFINE head == (txHead + n) % TxSize
<1>1. /\ UNCHANGED <<txTail, wire>> /\ txHead' = head /\ StartTx(head, txTail, inFlight)
      /\ accepted' = accepted \o [k \in 1 .. n |-> Len(accepted) + k]
      /\ txBuf' = [k \in DOMAIN txBuf |->
                     LET d == (k - txHead) % TxSize IN IF d < n THEN Len(accepted) + (d + 1) ELSE txBuf[k]]
  BY DEF Enqueue
<1>2. /\ TxSize \in Nat \ {0, 1} /\ chunk \in Nat /\ txHead \in 0 .. TxSize - 1 /\ txTail \in 0 .. TxSize - 1
      /\ hal \in [pos : Nat, left : Nat] /\ hal.left \in Nat /\ hal.pos \in Nat
      /\ Len(wire) \in Nat /\ Len(accepted) \in Nat
  BY UartAssumption, LenProperties DEF TxTypes
<1>3. InRing \in Nat /\ InRing + n <= TxSize - 1 /\ n < TxSize
  BY <1>2 DEF InRing, Count, Free
<1>4. head = IF txHead + n < TxSize THEN txHead + n ELSE txHead + n - TxSize
  <2>1. n \in 0 .. TxSize - 1
    BY <1>2, <1>3
  <2> QED
    BY <1>2, <2>1, Advances
<1> HIDE DEF head
<1>5. head \in 0 .. TxSize - 1
  BY <1>2, <1>3, <1>4
<1>6. Count(head, txTail) = InRing + n
  BY <1>2, <1>3, <1>4 DEF InRing, Count
<1>7. InRing' = InRing + n
  BY <1>1, <1>6 DEF InRing
\* The run in flight stays; if there was none, one starts at the tail.
<1>8. /\ chunk' \in Nat /\ hal' \in [pos : Nat, left : Nat] /\ inFlight' \in BOOLEAN /\ (inFlight' = TRUE <=> chunk' > 0)
      /\ RunInv' /\ Gone' = Gone /\ Gone \in Nat
  <2>1. CASE inFlight
    <3>1. inFlight' = TRUE /\ chunk' = chunk /\ hal' = hal /\ chunk > 0
      BY <1>1, <2>1 DEF StartTx, TxTypes
    <3>2. RunInv'
      BY <1>1, <1>2, <1>3, <1>7, <3>1 DEF RunInv, Gone
    <3>3. Gone \in Nat
      BY <1>2 DEF Gone, RunInv
    <3> QED
      BY <1>2, <3>1, <3>2, <3>3 DEF Gone
  <2>2. CASE ~ inFlight
    <3>1. chunk = 0 /\ hal.left = 0 /\ inFlight = FALSE
      <4>1. inFlight = FALSE /\ ~ chunk > 0
        BY <2>2 DEF TxTypes
      <4> QED
        BY <1>2, <4>1 DEF RunInv
    <3>2. StartTx(head, txTail, FALSE)
      BY <1>1, <3>1
    <3>3. /\ chunk' \in Nat /\ inFlight' \in BOOLEAN /\ (inFlight' = TRUE <=> chunk' > 0)
          /\ hal' \in [pos : Nat, left : Nat] /\ hal'.left = chunk'
          /\ chunk' > 0 => hal'.pos = txTail
          /\ chunk' <= Count(head, txTail) /\ txTail + chunk' <= TxSize
      BY <1>2, <1>5, <3>1, <3>2, StartsRun
    <3>4. Gone = 0 /\ Gone' = 0
      BY <1>2, <3>1, <3>3, NoneSent, Zenon
    <3>5. RunInv'
      <4>1. hal'.left <= chunk' /\ chunk' <= InRing'
        BY <1>6, <1>7, <3>3
      <4>2. chunk' > 0 => txTail' + chunk' <= TxSize /\ hal'.pos = txTail' + Gone'
        <5>1. txTail' = txTail /\ txTail + chunk' <= TxSize /\ (chunk' > 0 => hal'.pos = txTail) /\ Gone' = 0
          BY <1>1, <3>3, <3>4, Zenon
        <5> QED
          BY <1>2, <5>1
      <4> QED
        BY <4>1, <4>2 DEF RunInv
    <3> QED
      BY <3>3, <3>4, <3>5
  <2> QED
    BY <2>1, <2>2
\* The new bytes, by their numbers.
<1> DEFINE new == [k \in 1 .. n |-> Len(accepted) + k]
<1>9. new \in Seq(Nat) /\ Len(new) = n
  BY <1>2
<1>10. /\ accepted' \in Seq(Nat) /\ Len(accepted') = Len(accepted) + n
       /\ \A k \in 1 .. Len(accepted) + n : accepted'[k] = IF k <= Len(accepted) THEN accepted[k] ELSE new[k - Len(accepted)]
  BY <1>1, <1>9, ConcatProperties DEF TxTypes
<1>11. ASSUME NEW k \in 1 .. Len(accepted')
       PROVE  accepted'[k] = k
  <2>0. k \in 1 .. Len(accepted) + n /\ k \in Int
    BY <1>2, <1>10, <1>11
  <2>3. accepted'[k] = IF k <= Len(accepted) THEN accepted[k] ELSE new[k - Len(accepted)]
    BY <1>10, <2>0
  <2> HIDE DEF new
  <2>1. CASE k <= Len(accepted)
    <3>1. k \in 1 .. Len(accepted)
      BY <1>2, <2>0, <2>1
    <3>2. accepted[k] = k
      BY <3>1 DEF StreamInv
    <3> QED
      BY <2>1, <2>3, <3>2
  <2>2. CASE k > Len(accepted)
    <3>1. k - Len(accepted) \in 1 .. n
      BY <1>2, <2>0, <2>2
    <3>2. new[k - Len(accepted)] = Len(accepted) + (k - Len(accepted))
      BY <3>1 DEF new
    <3> QED
      BY <1>2, <2>0, <2>2, <2>3, <3>2
  <2> QED
    BY <1>2, <2>0, <2>1, <2>2
\* A slot holds what it held, unless it is one of the n behind the head.
<1>12. ASSUME NEW k \in 0 .. TxSize - 1
       PROVE  LET d == IF k < txHead THEN k - txHead + TxSize ELSE k - txHead
              IN  txBuf'[k] = IF d < n THEN Len(accepted) + (d + 1) ELSE txBuf[k]
  <2>1. (k - txHead) % TxSize = IF k < txHead THEN k - txHead + TxSize ELSE k - txHead
    <3>1. /\ k - txHead \in Int /\ -TxSize <= k - txHead /\ k - txHead < 2 * TxSize /\ k - txHead < TxSize
          /\ k - txHead < 0 <=> k < txHead
      BY <1>2
    <3> QED
      BY <3>1, WrapsOnce
  <2>2. DOMAIN txBuf = 0 .. TxSize - 1
    BY DEF TxTypes
  <2> QED
    BY <1>1, <2>1, <2>2
<1>13. txBuf' \in [0 .. TxSize - 1 -> Nat]
  <2>1. txBuf \in [0 .. TxSize - 1 -> Nat]
    BY DEF TxTypes
  <2>2. ASSUME NEW k \in 0 .. TxSize - 1
        PROVE  txBuf'[k] \in Nat
    BY <1>2, <1>12, <2>1, <2>2
  <2>3. DOMAIN txBuf' = 0 .. TxSize - 1 /\ txBuf' = [k \in DOMAIN txBuf' |-> txBuf'[k]]
    BY <1>1, <2>1
  <2> QED
    BY <2>2, <2>3
<1>14. ASSUME NEW j \in 1 .. InRing', j > Gone'
       PROVE  txBuf'[Pos(j)'] = Len(wire)' - Gone' + j
  <2> DEFINE p == Pos(j)
             d == IF p < txHead THEN p - txHead + TxSize ELSE p - txHead
  <2>1. j \in 1 .. InRing + n /\ Pos(j)' = p /\ j > Gone
    BY <1>1, <1>7, <1>8, <1>14 DEF Pos
  <2>2. p \in 0 .. TxSize - 1
    BY <1>2, <1>3, <2>1 DEF Pos
  <2>3. IF j <= InRing THEN d >= n ELSE d = j - InRing - 1
    BY <1>2, <1>3, <2>1 DEF Pos, InRing, Count
  <2>4. txBuf'[p] = IF d < n THEN Len(accepted) + (d + 1) ELSE txBuf[p]
    BY <1>12, <2>2
  <2>5. Len(accepted) = Len(wire) + InRing - Gone
    BY DEF StreamInv
  <2>6. CASE j <= InRing
    <3>1. txBuf[p] = Len(wire) - Gone + j
      BY <1>3, <2>1, <2>6 DEF StreamInv
    <3>2. txBuf'[p] = txBuf[p]
      BY <1>2, <1>3, <2>1, <2>2, <2>3, <2>4, <2>6
    <3> QED
      BY <1>1, <1>8, <2>1, <3>1, <3>2
  <2>7. CASE j > InRing
    <3>1. txBuf'[p] = Len(accepted) + (j - InRing)
      BY <1>2, <1>3, <2>1, <2>2, <2>3, <2>4, <2>7
    <3> QED
      BY <1>1, <1>2, <1>3, <1>8, <2>1, <2>5, <3>1
  <2> QED
    BY <1>3, <2>1, <2>6, <2>7
<1>15. StreamInv'
  <2>1. Len(accepted) = Len(wire) + InRing - Gone
    BY DEF StreamInv
  <2>2. Len(accepted)' = Len(wire)' + InRing' - Gone'
    BY <1>1, <1>2, <1>3, <1>7, <1>8, <1>10, <2>1
  <2> QED
    BY <1>1, <1>11, <1>14, <2>2 DEF StreamInv
<1>16. TxTypes'
  BY <1>1, <1>5, <1>8, <1>10, <1>13 DEF TxTypes
<1> QED
  BY <1>8, <1>15, <1>16
\* What leaves the transmit side alone.
LEMMA TxStays == TxInv /\ UNCHANGED txVars => TxInv'
BY DEF TxInv, TxTypes, RunInv, StreamInv, InRing, Gone, Pos, txVars

\* The room in the ring, and the part of a write that fits.
LEMMA FreeIsNat == TxInv => Free \in Nat
<1> SUFFICES ASSUME TxInv PROVE Free \in Nat
  OBVIOUS
<1>1. TxSize \in Nat /\ txHead \in 0 .. TxSize - 1 /\ txTail \in 0 .. TxSize - 1
  BY UartAssumption DEF TxInv, TxTypes
<1> QED
  BY <1>1 DEF Free, Count

\* The interrupts, and printf() of another thread.
LEMMA InterruptsKeep == UartInv /\ (Interrupts \/ Printf) => UartInv'
<1> SUFFICES ASSUME UartInv, Interrupts \/ Printf PROVE UartInv'
  OBVIOUS
<1>1. UNCHANGED <<rxBuf, toSend>> => RxTypes'
  BY DEF UartInv, RxTypes
<1>2. CASE HalSends
  BY <1>1, <1>2, SendsNext DEF HalSends, rxVars, conVars, UartInv
<1>3. CASE TxComplete
  BY <1>1, <1>3, CompletesRun DEF TxComplete, rxVars, conVars, UartInv
<1>4. CASE RxError
  BY <1>1, <1>4, TxStays DEF RxError, conVars, UartInv
<1>5. CASE Printf
  <2>1. Free \in Nat /\ Free > 0
    BY <1>5, FreeIsNat DEF Printf, UartInv
  <2>2. 1 \in Nat /\ 1 <= Free
    BY <2>1
  <2>3. TxInv'
    BY <1>5, <2>2, EnqueuesBehind DEF Printf, UartInv
  <2> QED
    BY <1>1, <1>5, <2>3 DEF Printf, rxVars, conVars, UartInv
<1> QED
  BY <1>2, <1>3, <1>4, <1>5 DEF Interrupts

\* The receive ring takes a byte only while it has room.
LEMMA ReceivesKeep == UartInv /\ (RxByte \/ RxOverrun) => UartInv'
<1> SUFFICES ASSUME UartInv, RxByte \/ RxOverrun PROVE UartInv'
  OBVIOUS
<1>1. UNCHANGED <<txVars, toSend>>
  BY DEF RxByte, RxOverrun, conVars
<1>2. RxTypes'
  <2>1. CASE RxOverrun
    BY <1>1, <2>1 DEF RxOverrun, UartInv, RxTypes
  <2>2. CASE RxByte
    <3>1. PICK b \in {"key", "cr", "etx"} : rxBuf' = IF Len(rxBuf) < RxSize - 1 THEN Append(rxBuf, b) ELSE rxBuf
      BY <2>2 DEF RxByte
    <3>2. rxBuf \in Seq({"key", "cr", "etx"}) /\ Len(rxBuf) \in Nat /\ RxSize \in Nat /\ Len(rxBuf) <= RxSize - 1
      BY LenProperties, UartAssumption DEF UartInv, RxTypes
    <3>3. Append(rxBuf, b) \in Seq({"key", "cr", "etx"}) /\ Len(Append(rxBuf, b)) = Len(rxBuf) + 1
      BY <3>2, AppendProperties
    <3>4. CASE Len(rxBuf) < RxSize - 1
      <4>1. rxBuf' = Append(rxBuf, b)
        BY <3>1, <3>4
      <4>2. Len(rxBuf') <= RxSize - 1
        BY <3>2, <3>3, <3>4, <4>1
      <4> QED
        BY <1>1, <3>3, <4>1, <4>2 DEF RxTypes, UartInv
    <3>5. CASE ~ Len(rxBuf) < RxSize - 1
      BY <1>1, <3>1, <3>2, <3>5 DEF RxTypes, UartInv
    <3> QED
      BY <3>4, <3>5
  <2> QED
    BY <2>1, <2>2
<1> QED
  BY <1>1, <1>2, TxStays DEF UartInv

\* The shell thread writes what fits, and takes bytes from the receive ring.
LEMMA ShellKeeps == UartInv /\ (ShellThread \/ CommandPrints \/ CommandPolls) => UartInv'
<1> SUFFICES ASSUME UartInv, ShellThread \/ CommandPrints \/ CommandPolls PROVE UartInv'
  OBVIOUS
<1>1. rxBuf \in Seq({"key", "cr", "etx"}) /\ Len(rxBuf) \in Nat /\ RxSize \in Nat \ {0, 1} /\ Len(rxBuf) <= RxSize - 1
      /\ toSend \in Nat /\ TxInv
  BY LenProperties, UartAssumption DEF UartInv, RxTypes
<1>2. <<>> \in Seq({"key", "cr", "etx"}) /\ Len(<<>>) <= RxSize - 1
  BY <1>1
<1>3. CASE ConWakes \/ ConIdle \/ FullPolls \/ FullWakes \/ CommandPolls \/ CommandReturns
  <2>1. UNCHANGED <<txVars, toSend>> /\ (rxBuf' = rxBuf \/ rxBuf' = <<>>)
    BY <1>3 DEF ConWakes, ConIdle, FullPolls, FullWakes, CommandPolls, CommandReturns, PollRx
  <2> QED
    BY <1>1, <1>2, <2>1, TxStays DEF UartInv, RxTypes
<1>4. CASE ConReads
  <2>1. Tail(rxBuf) \in Seq({"key", "cr", "etx"}) /\ Len(Tail(rxBuf)) = Len(rxBuf) - 1
    BY <1>1, <1>4, HeadTailProperties DEF ConReads
  <2>2. Len(Tail(rxBuf)) <= RxSize - 1
    BY <1>1, <2>1
  <2> QED
    BY <1>1, <1>4, <2>1, <2>2, TxStays DEF ConReads, UartInv, RxTypes
<1>5. CASE SendEnded \/ CommandPrints
  <2>1. UNCHANGED <<txVars, rxBuf>> /\ toSend' \in Nat
    BY <1>5, UartAssumption DEF SendEnded, CommandPrints
  <2> QED
    BY <1>1, <2>1, TxStays DEF UartInv, RxTypes
<1>6. CASE SendWrites
  <2> DEFINE n == Lesser(toSend, Free)
  <2>1. Free \in Nat
    BY <1>1, FreeIsNat
  <2>2. n \in Nat /\ n <= Free /\ toSend - n \in Nat
    BY <1>1, <2>1 DEF Lesser
  <2>3. UNCHANGED rxBuf /\ toSend' = toSend - n /\ Enqueue(n)
    BY <1>6 DEF SendWrites
  <2> HIDE DEF n
  <2>4. TxInv'
    BY <1>1, <2>2, <2>3, EnqueuesBehind
  <2> QED
    BY <1>1, <2>2, <2>3, <2>4 DEF UartInv, RxTypes
<1> QED
  BY <1>3, <1>4, <1>5, <1>6 DEF ShellThread

LEMMA UartInvariance == UartSpec => []UartInv
<1>1. UartInv /\ UNCHANGED uartVars => UartInv'
  BY TxStays DEF UartInv, RxTypes, uartVars, rxVars, conVars
<1>2. UartInv /\ [UartNext]_uartVars => UartInv'
  BY <1>1, InterruptsKeep, ReceivesKeep, ShellKeeps DEF UartNext
<1> QED
  BY <1>2, UartInitInv, PTL DEF UartSpec

\* The bytes on the wire and those of the ring not yet sent, one behind the
\* other, are the bytes accepted.
LEMMA RingIsStream ==
  ASSUME TxInv
  PROVE  wire \o SubSeq(Queued, chunk - hal.left + 1, Len(Queued)) = accepted
<1> USE DEF TxInv
<1>1. /\ TxSize \in Nat \ {0, 1} /\ txHead \in 0 .. TxSize - 1 /\ txTail \in 0 .. TxSize - 1
      /\ Len(wire) \in Nat /\ Len(accepted) \in Nat /\ txBuf \in [0 .. TxSize - 1 -> Nat]
  BY UartAssumption, LenProperties DEF TxTypes
<1>2. InRing \in 0 .. TxSize - 1
  BY <1>1 DEF InRing, Count
<1>3. chunk - hal.left = Gone /\ Gone \in Nat /\ Gone <= InRing
  BY <1>2 DEF Gone, TxTypes, RunInv
<1>4. Queued = [k \in 1 .. InRing |-> txBuf[(txTail + k - 1) % TxSize]]
  BY DEF Queued, InRing
<1>5. ASSUME NEW k \in 1 .. InRing
      PROVE  Queued[k] = txBuf[Pos(k)] /\ Pos(k) \in 0 .. TxSize - 1
  <2>1. k - 1 \in 0 .. TxSize - 1 /\ txTail + k - 1 = txTail + (k - 1)
    BY <1>1, <1>2
  <2>2. (txTail + (k - 1)) % TxSize = Pos(k)
    BY <1>1, <2>1, Advances DEF Pos
  <2>3. Pos(k) \in 0 .. TxSize - 1
    BY <1>1, <1>2, <2>1 DEF Pos
  <2>4. Queued[k] = txBuf[(txTail + k - 1) % TxSize]
    BY <1>4
  <2> QED
    BY <2>1, <2>2, <2>3, <2>4
<1>6. Queued \in Seq(Nat) /\ Len(Queued) = InRing
  <2>1. \A k \in 1 .. InRing : txBuf[(txTail + k - 1) % TxSize] \in Nat
    BY <1>1, <1>4, <1>5
  <2> QED
    BY <1>2, <1>4, <2>1
<1> DEFINE rest == SubSeq(Queued, Gone + 1, InRing)
<1>7. /\ rest \in Seq(Nat) /\ Len(rest) = InRing - Gone
      /\ \A i \in 1 .. InRing - Gone : rest[i] = Queued[Gone + i]
  <2>1. \A i \in Gone + 1 .. InRing : Queued[i] \in Nat
    BY <1>1, <1>2, <1>3, <1>5
  <2>2. Gone + 1 \in Int /\ InRing \in Int
    BY <1>2, <1>3
  <2>3. /\ rest \in Seq(Nat) /\ Len(rest) = IF Gone + 1 <= InRing THEN InRing - (Gone + 1) + 1 ELSE 0
        /\ \A i \in 1 .. InRing - (Gone + 1) + 1 : rest[i] = Queued[Gone + 1 + i - 1]
    BY <2>1, <2>2, SubSeqProperties
  <2> HIDE DEF rest
  <2> QED
    BY <1>2, <1>3, <2>3
<1> HIDE DEF rest
<1>8. wire \in Seq(Nat) /\ accepted \in Seq(Nat)
  BY DEF TxTypes
<1>9. /\ wire \o rest \in Seq(Nat) /\ Len(wire \o rest) = Len(wire) + Len(rest)
      /\ \A i \in 1 .. Len(wire) + Len(rest) : (wire \o rest)[i] = IF i <= Len(wire) THEN wire[i] ELSE rest[i - Len(wire)]
  BY <1>7, <1>8, ConcatProperties
<1>10. Len(accepted) = Len(wire) + (InRing - Gone)
  BY <1>1, <1>2, <1>3 DEF StreamInv
<1>11. ASSUME NEW i \in 1 .. Len(wire) + (InRing - Gone)
       PROVE  (wire \o rest)[i] = i
  <2>1. CASE i <= Len(wire)
    <3>1. i \in 1 .. Len(wire)
      BY <1>1, <1>2, <1>3, <1>11, <2>1
    <3>2. wire[i] = i
      BY <3>1 DEF StreamInv
    <3> QED
      BY <1>7, <1>9, <1>11, <2>1, <3>2
  <2>2. CASE ~ i <= Len(wire)
    <3> DEFINE j == i - Len(wire)
    <3>1. j \in 1 .. InRing - Gone /\ Gone + j \in 1 .. InRing /\ Gone + j > Gone
      BY <1>1, <1>2, <1>3, <1>11, <2>2
    <3>2. rest[j] = txBuf[Pos(Gone + j)]
      BY <1>5, <1>7, <3>1
    <3>3. txBuf[Pos(Gone + j)] = Len(wire) - Gone + (Gone + j)
      BY <3>1 DEF StreamInv
    <3>4. ~ i <= Len(wire) /\ i = Len(wire) - Gone + (Gone + j)
      BY <1>1, <1>2, <1>3, <1>11, <2>2
    <3> HIDE DEF j
    <3>5. (wire \o rest)[i] = rest[j]
      BY <1>7, <1>9, <1>11, <3>4 DEF j
    <3> QED
      BY <3>2, <3>3, <3>4, <3>5
  <2> QED
    BY <2>1, <2>2
<1>12. \A i \in 1 .. Len(wire \o rest) : (wire \o rest)[i] = accepted[i]
  BY <1>7, <1>9, <1>10, <1>11 DEF StreamInv
<1>13. wire \o rest = accepted
  BY <1>7, <1>8, <1>9, <1>10, <1>12, SeqEqual
<1> QED
  BY <1>3, <1>6, <1>13 DEF rest

(* The bytes two producers queue leave the UART in the order in which they   *)
(* were accepted, none lost, doubled or overwritten in flight, for any sizes *)
(* of the rings and any interleaving of threads and interrupts.              *)
THEOREM BytesLeaveInOrder == UartSpec => []TxIsFifo
<1>1. UartInv => TxIsFifo
  <2> SUFFICES ASSUME UartInv PROVE TxIsFifo
    OBVIOUS
  <2>1. TxSize \in Nat \ {0, 1} /\ RxSize \in Nat \ {0, 1} /\ txHead \in 0 .. TxSize - 1 /\ txTail \in 0 .. TxSize - 1
        /\ chunk \in Nat /\ chunk <= InRing
    BY UartAssumption DEF UartInv, TxInv, TxTypes, RunInv
  <2>2. InRing \in 0 .. TxSize - 1
    BY <2>1 DEF InRing, Count
  <2>3. chunk \in 0 .. TxSize - 1
    BY <2>1, <2>2
  <2>4. Len(rxBuf) \in 0 .. RxSize - 1
    <3>1. Len(rxBuf) \in Nat /\ Len(rxBuf) <= RxSize - 1
      BY LenProperties DEF UartInv, RxTypes
    <3> QED
      BY <2>1, <3>1
  <2>5. inFlight = (chunk > 0)
    BY DEF UartInv, TxInv, TxTypes
  <2>6. UartTypeOK
    BY <2>1, <2>3, <2>4, <2>5 DEF UartTypeOK
  <2> QED
    BY <2>6, RingIsStream DEF TxIsFifo, UartInv
<1> QED
  BY <1>1, UartInvariance, PTL

\* A ring with a byte in it has a run to start.
LEMMA RunFound ==
  ASSUME TxSize \in Nat \ {0, 1}, NEW head \in 0 .. TxSize - 1, NEW tail \in 0 .. TxSize - 1, NEW busy \in BOOLEAN,
         StartTx(head, tail, busy), Count(head, tail) > 0
  PROVE  inFlight' = TRUE
<1>1. Contig(head, tail) # 0
  BY DEF Contig, Count
<1> QED
  BY <1>1 DEF StartTx

\* Whoever changes the ring leaves a run under way, and a run goes on.
LEMMA EnqueueFlies ==
  ASSUME TxTypes, NEW n \in Nat, Enqueue(n)
  PROVE  /\ Count(txHead, txTail)' > 0 => inFlight'
         /\ inFlight => inFlight'
<1>1. /\ TxSize \in Nat \ {0, 1} /\ txTail' = txTail /\ txTail \in 0 .. TxSize - 1 /\ txHead \in 0 .. TxSize - 1
      /\ inFlight \in BOOLEAN /\ txHead' = (txHead + n) % TxSize /\ StartTx((txHead + n) % TxSize, txTail, inFlight)
  BY UartAssumption DEF TxTypes, Enqueue
<1>2. (txHead + n) % TxSize \in 0 .. TxSize - 1
  BY <1>1
<1>3. Count(txHead, txTail)' = Count((txHead + n) % TxSize, txTail)
  BY <1>1 DEF Count
<1>4. inFlight => inFlight'
  BY <1>1 DEF StartTx
<1> QED
  BY <1>1, <1>2, <1>3, <1>4, RunFound

LEMMA CompleteFlies ==
  ASSUME TxTypes, TxComplete
  PROVE  Count(txHead, txTail)' > 0 => inFlight'
<1> DEFINE t == (txTail + chunk) % TxSize
<1>1. /\ TxSize \in Nat \ {0, 1} /\ txHead' = txHead /\ txTail \in 0 .. TxSize - 1 /\ txHead \in 0 .. TxSize - 1
      /\ chunk \in Nat /\ txTail' = t /\ StartTx(txHead, t, FALSE)
  BY UartAssumption DEF TxTypes, TxComplete
<1>2. t \in 0 .. TxSize - 1
  BY <1>1
<1>3. Count(txHead, txTail)' = Count(txHead, t)
  BY <1>1 DEF Count
<1> HIDE DEF t
<1> QED
  BY <1>1, <1>2, <1>3, RunFound

LEMMA WakesInit == UartInit => NoLostWakeUp
<1> SUFFICES ASSUME UartInit PROVE NoLostWakeUp
  OBVIOUS
<1>1. Count(txHead, txTail) = 0
  BY UartAssumption DEF UartInit, Count
<1> QED
  BY <1>1 DEF UartInit, NoLostWakeUp

\* What the UART and the producers do to the ring is announced.
LEMMA RingWakes ==
  ASSUME UartInv, NoLostWakeUp, Interrupts \/ Printf
  PROVE  NoLostWakeUp'
<1>1. TxTypes
  BY DEF UartInv, TxInv
<1>2. CASE HalSends
  BY <1>2 DEF HalSends, NoLostWakeUp, Count, rxVars, conVars
<1>3. CASE TxComplete
  BY <1>1, <1>3, CompleteFlies DEF TxComplete, NoLostWakeUp, rxVars, conVars
<1>4. CASE RxError
  BY <1>4 DEF RxError, NoLostWakeUp, Count, txVars, conVars
<1>5. CASE Printf
  BY <1>1, <1>5, EnqueueFlies DEF Printf, NoLostWakeUp, rxVars, conVars
<1> QED
  BY <1>2, <1>3, <1>4, <1>5 DEF Interrupts

\* A byte received is announced with it.
LEMMA ReceiveWakes ==
  ASSUME NoLostWakeUp, RxByte \/ RxOverrun
  PROVE  NoLostWakeUp'
BY DEF RxByte, RxOverrun, NoLostWakeUp, Count, txVars, conVars

\* The shell waits only for what is still to be announced to it.
LEMMA ShellWakes ==
  ASSUME UartInv, NoLostWakeUp, ShellThread \/ CommandPrints \/ CommandPolls
  PROVE  NoLostWakeUp'
<1>1. TxTypes /\ Free \in Nat /\ toSend \in Nat
  BY FreeIsNat DEF UartInv, TxInv, RxTypes
<1>2. UNCHANGED txVars => UNCHANGED <<Count(txHead, txTail), inFlight>>
  BY DEF txVars, Count
<1>3. CASE ConWakes \/ ConReads \/ CommandPrints \/ CommandReturns \/ SendEnded \/ CommandPolls
  <2>1. UNCHANGED <<txVars, flagTx>> /\ con' \in {"read", "command", "send"}
    BY <1>3 DEF ConWakes, ConReads, CommandPrints, CommandReturns, SendEnded, CommandPolls, Con
  <2> QED
    BY <1>2, <2>1 DEF NoLostWakeUp
<1>4. CASE ConIdle
  BY <1>2, <1>4 DEF ConIdle, Con, NoLostWakeUp
<1>5. CASE FullPolls
  BY <1>2, <1>5 DEF FullPolls, PollRx, Con, NoLostWakeUp
<1>6. CASE FullWakes
  <2>1. UNCHANGED txVars /\ con' = "send"
    BY <1>6 DEF FullWakes, Con
  <2> QED
    BY <1>2, <2>1 DEF NoLostWakeUp
<1>7. CASE SendWrites
  <2> DEFINE n == Lesser(toSend, Free)
  <2>1. n \in Nat /\ Enqueue(n) /\ con' = (IF Free > 0 THEN "send" ELSE "full") /\ UNCHANGED flagTx
    BY <1>1, <1>7 DEF SendWrites, Con, Lesser
  <2> HIDE DEF n
  <2>2. (Count(txHead, txTail)' > 0 => inFlight') /\ (inFlight => inFlight')
    BY <1>1, <2>1, EnqueueFlies
  <2>3. ~ Free > 0 => inFlight
    <3>1. ~ Free > 0 => Count(txHead, txTail) > 0
      BY <1>1, UartAssumption DEF Free, Count, TxTypes
    <3> QED
      BY <3>1 DEF NoLostWakeUp
  <2> QED
    BY <2>1, <2>2, <2>3 DEF NoLostWakeUp
<1> QED
  BY <1>3, <1>4, <1>5, <1>6, <1>7 DEF ShellThread

(* Bytes leave the UART in order, and nobody sleeps through what it waits    *)
(* for: a ring with bytes has a run under way, a shell at a full ring has a  *)
(* completion to come, one that waits for keys has been told of all of them, *)
(* for any sizes of the rings and wherever the interrupts come.              *)
THEOREM ConsoleStaysSound == UartSpec => []ConsoleSound
<1>1. NoLostWakeUp /\ UNCHANGED uartVars => NoLostWakeUp'
  BY DEF NoLostWakeUp, Count, uartVars, txVars, rxVars, conVars
<1>2. UartInv /\ NoLostWakeUp /\ [UartNext]_uartVars => NoLostWakeUp'
  BY <1>1, RingWakes, ReceiveWakes, ShellWakes DEF UartNext
<1>3. UartSpec => []NoLostWakeUp
  BY <1>2, WakesInit, UartInvariance, PTL DEF UartSpec
<1>4. TxIsFifo /\ NoLostWakeUp => ConsoleSound
  BY DEF ConsoleSound
<1> QED
  BY <1>3, <1>4, BytesLeaveInOrder, PTL

------------------------------------------------------------------------------
(* Ymodem: what is on the line between the sender and the receiver.        *)

Bytes == {"C", "ACK", "NAK", "noise", "ETX", "CAN"}
Kinds == {"name", "data", "eot", "null", "garbled", "CAN"}
Messages == [kind : Kinds, n : Int]
Garbled == [kind |-> "garbled", n |-> 0]
Cancelled == [kind |-> "CAN", n |-> 0]

Clear(s) == s = <<>>
AtMostOne(s) == Len(s) <= 1
Within(s, B) == \A i \in 1 .. Len(s) : s[i] \in B
Without(s, b) == \A i \in 1 .. Len(s) : s[i] # b

\* Ctrl-C is not an answer: there is none, or at most one, besides.
Idle(s) == \A i \in 1 .. Len(s) : s[i] = "ETX"
Sole(s) == \A i, j \in 1 .. Len(s) : s[i] # "ETX" /\ s[j] # "ETX" => i = j

\* A 'C' is the oldest answer; or, with nothing else on the way, the second
\* and last.
OldestC(s, alone) ==
    \A i \in 1 .. Len(s) : s[i] = "C" =>
       \/ \A j \in 1 .. Len(s) : j < i => s[j] = "ETX"
       \/ /\ alone
          /\ \A j \in 1 .. Len(s) : j > i => s[j] = "ETX"
          /\ \A j, k \in 1 .. Len(s) : j < i /\ k < i /\ s[j] # "ETX" /\ s[k] # "ETX" => j = k
\* A 'C' is the only answer.
OnlyC(s) == \A i, j \in 1 .. Len(s) : s[i] = "C" /\ j # i => s[j] = "ETX"

\* The elements of the sequences that the line's operations make.
LEMMA TailElements ==
    ASSUME NEW S, NEW s \in Seq(S), ~Clear(s)
    PROVE  /\ Tail(s) \in Seq(S) /\ Head(s) \in S /\ Head(s) = s[1]
           /\ Len(s) \in Nat /\ 1 <= Len(s) /\ Len(Tail(s)) = Len(s) - 1
           /\ \A i \in 1 .. Len(Tail(s)) : Tail(s)[i] = s[i + 1]
BY HeadTailProperties, LenProperties, EmptySeq DEF Clear

LEMMA AppendElements ==
    ASSUME NEW S, NEW s \in Seq(S), NEW x \in S
    PROVE  /\ Append(s, x) \in Seq(S) /\ s \o <<x>> = Append(s, x)
           /\ Len(s) \in Nat /\ Len(Append(s, x)) = Len(s) + 1
           /\ \A i \in 1 .. Len(s) : Append(s, x)[i] = s[i]
           /\ Append(s, x)[Len(s) + 1] = x
BY AppendProperties, AppendIsConcat, LenProperties

LEMMA ReplaceElements ==
    ASSUME NEW S, NEW s \in Seq(S), NEW x \in S, ~Clear(s)
    PROVE  LET t == [s EXCEPT ![1] = x]
           IN /\ t \in Seq(S) /\ Len(s) \in Nat /\ 1 <= Len(s) /\ Len(t) = Len(s)
              /\ t[1] = x /\ \A i \in 1 .. Len(s) : i # 1 => t[i] = s[i]
BY ExceptSeq, LenProperties, EmptySeq DEF Clear

\* Reading a byte
LEMMA TailFacts ==
    ASSUME NEW S, NEW s \in Seq(S), ~Clear(s)
    PROVE  /\ Idle(s) => Idle(Tail(s)) /\ Head(s) = "ETX"
           /\ Sole(s) => Sole(Tail(s))
           /\ Sole(s) /\ Head(s) # "ETX" => Idle(Tail(s))
           /\ \A b : Without(s, b) => Without(Tail(s), b) /\ Head(s) # b
           /\ \A B : Within(s, B) => Within(Tail(s), B) /\ Head(s) \in B
           /\ OnlyC(s) => OnlyC(Tail(s))
           /\ OnlyC(s) /\ Head(s) = "C" => Idle(Tail(s))
           /\ AtMostOne(s) => Clear(Tail(s))
<1> DEFINE t == Tail(s)
           n == Len(t)
<1>1. /\ t \in Seq(S) /\ Head(s) = s[1] /\ n \in Nat /\ Len(s) = n + 1
      /\ \A i \in 1 .. n : t[i] = s[i + 1]
  BY TailElements, LenProperties
<1>2. 1 \in 1 .. Len(s) /\ \A i \in 1 .. n : i + 1 \in 1 .. Len(s) /\ i + 1 # 1 /\ t[i] = s[i + 1]
  BY <1>1
<1>3. \A i, j \in 1 .. n : i + 1 = j + 1 => i = j
  BY <1>1
<1>4. AtMostOne(s) => Clear(t)
  <2>1. AtMostOne(s) => n = 0
    BY <1>1 DEF AtMostOne
  <2>2. n = 0 => t = <<>>
    BY <1>1, EmptySeq
  <2> QED
    BY <2>1, <2>2 DEF Clear
<1> HIDE DEF t, n
<1>5. /\ Idle(s) => Idle(t) /\ Head(s) = "ETX"
      /\ \A b : Without(s, b) => Without(t, b) /\ Head(s) # b
      /\ \A B : Within(s, B) => Within(t, B) /\ Head(s) \in B
  BY <1>1, <1>2 DEF Idle, Without, Within, n
<1>6. /\ Sole(s) => Sole(t)
      /\ Sole(s) /\ Head(s) # "ETX" => Idle(t)
      /\ OnlyC(s) => OnlyC(t)
      /\ OnlyC(s) /\ Head(s) = "C" => Idle(t)
  <2> DEFINE N == 1 .. n
             L == 1 .. Len(s)
  <2>1. Sole(s) => Sole(t)
    <3> SUFFICES ASSUME Sole(s), NEW i \in N, NEW j \in N, t[i] # "ETX", t[j] # "ETX"
                 PROVE  i = j
      BY DEF Sole, n
    <3>1. i + 1 \in L /\ j + 1 \in L /\ s[i + 1] # "ETX" /\ s[j + 1] # "ETX"
      BY <1>2
    <3>2. i + 1 = j + 1
      BY <3>1 DEF Sole
    <3> QED
      BY <1>3, <3>2
  <2>2. ASSUME Sole(s), Head(s) # "ETX", NEW i \in N PROVE t[i] = "ETX"
    <3>1. i + 1 \in L /\ 1 \in L /\ i + 1 # 1 /\ s[1] # "ETX" /\ t[i] = s[i + 1]
      BY <1>1, <1>2, <2>2
    <3> QED
      BY <2>2, <3>1 DEF Sole
  <2>3. ASSUME OnlyC(s), NEW i \in N, NEW j \in N, t[i] = "C", j # i PROVE t[j] = "ETX"
    <3>1. i + 1 \in L /\ j + 1 \in L /\ i + 1 # j + 1 /\ s[i + 1] = "C" /\ t[j] = s[j + 1]
      BY <1>2, <1>3, <2>3
    <3> QED
      BY <2>3, <3>1 DEF OnlyC
  <2>4. ASSUME OnlyC(s), Head(s) = "C", NEW i \in N PROVE t[i] = "ETX"
    <3>1. i + 1 \in L /\ 1 \in L /\ i + 1 # 1 /\ s[1] = "C" /\ t[i] = s[i + 1]
      BY <1>1, <1>2, <2>4
    <3> QED
      BY <2>4, <3>1 DEF OnlyC
  <2> QED
    BY <2>1, <2>2, <2>3, <2>4 DEF Idle, OnlyC, n
<1> QED
  BY <1>4, <1>5, <1>6 DEF t

LEMMA TailOldest ==
    ASSUME NEW S, NEW s \in Seq(S), ~Clear(s), NEW alone, OldestC(s, alone)
    PROVE  /\ OldestC(Tail(s), alone)
           /\ Head(s) # "ETX" => OldestC(Tail(s), FALSE)
           /\ Head(s) = "ACK" => OnlyC(Tail(s)) /\ (Without(Tail(s), "C") \/ alone)
<1> DEFINE t == Tail(s)
           n == Len(t)
<1>1. /\ t \in Seq(S) /\ Head(s) = s[1] /\ n \in Nat /\ Len(s) = n + 1
      /\ \A i \in 1 .. n : t[i] = s[i + 1]
  BY TailElements, LenProperties
<1>2. 1 \in 1 .. Len(s) /\ \A i \in 1 .. n : i + 1 \in 1 .. Len(s) /\ 1 < i + 1 /\ t[i] = s[i + 1]
  BY <1>1
<1>3. \A i, j \in 1 .. n : (i + 1 = j + 1 => i = j) /\ (i + 1 < j + 1 <=> i < j)
  BY <1>1
<1> HIDE DEF t, n
<1>4. OldestC(t, alone)
  <2> SUFFICES ASSUME NEW i \in 1 .. n, t[i] = "C"
               PROVE  \/ \A j \in 1 .. n : j < i => t[j] = "ETX"
                      \/ /\ alone
                         /\ \A j \in 1 .. n : j > i => t[j] = "ETX"
                         /\ \A j, k \in 1 .. n : j < i /\ k < i /\ t[j] # "ETX" /\ t[k] # "ETX" => j = k
    BY DEF OldestC, n
  <2>1. i + 1 \in 1 .. Len(s) /\ s[i + 1] = "C"
    BY <1>2
  <2>2. CASE \A j \in 1 .. Len(s) : j < i + 1 => s[j] = "ETX"
    <3>1. ASSUME NEW j \in 1 .. n, j < i PROVE t[j] = "ETX"
      <4>1. j + 1 \in 1 .. Len(s) /\ j + 1 < i + 1 /\ t[j] = s[j + 1]
        BY <1>1, <1>2, <3>1
      <4> QED
        BY <2>2, <4>1
    <3> QED
      BY <3>1
  <2>3. CASE /\ alone
             /\ \A j \in 1 .. Len(s) : j > i + 1 => s[j] = "ETX"
             /\ \A j, k \in 1 .. Len(s) : j < i + 1 /\ k < i + 1 /\ s[j] # "ETX" /\ s[k] # "ETX" => j = k
    <3>1. ASSUME NEW j \in 1 .. n, j > i PROVE t[j] = "ETX"
      <4>1. j + 1 \in 1 .. Len(s) /\ j + 1 > i + 1 /\ t[j] = s[j + 1]
        BY <1>1, <1>2, <3>1
      <4> QED
        BY <2>3, <4>1
    <3>2. ASSUME NEW j \in 1 .. n, NEW k \in 1 .. n, j < i, k < i, t[j] # "ETX", t[k] # "ETX"
          PROVE  j = k
      <4>1. /\ j + 1 \in 1 .. Len(s) /\ j + 1 < i + 1 /\ t[j] = s[j + 1]
            /\ k + 1 \in 1 .. Len(s) /\ k + 1 < i + 1 /\ t[k] = s[k + 1]
        BY <1>1, <1>2, <3>2
      <4>2. j + 1 = k + 1
        BY <2>3, <3>2, <4>1
      <4> QED
        BY <1>3, <4>2
    <3> QED
      BY <2>3, <3>1, <3>2
  <2> QED
    BY <2>1, <2>2, <2>3 DEF OldestC
<1>5. Head(s) # "ETX" => OldestC(t, FALSE)
  BY <1>1, <1>2, <1>3 DEF OldestC, n
<1>6. ASSUME Head(s) = "ACK", NEW i \in 1 .. n, t[i] = "C"
      PROVE  alone /\ \A j \in 1 .. n : j # i => t[j] = "ETX"
  <2>1. i + 1 \in 1 .. Len(s) /\ s[i + 1] = "C" /\ 1 < i + 1 /\ s[1] # "ETX"
    BY <1>1, <1>2, <1>6
  <2>2. /\ alone
        /\ \A j \in 1 .. Len(s) : j > i + 1 => s[j] = "ETX"
        /\ \A j, k \in 1 .. Len(s) : j < i + 1 /\ k < i + 1 /\ s[j] # "ETX" /\ s[k] # "ETX" => j = k
    BY <1>2, <2>1 DEF OldestC
  <2>3. ASSUME NEW j \in 1 .. n, j # i PROVE t[j] = "ETX"
    <3>1. j + 1 \in 1 .. Len(s) /\ 1 # j + 1 /\ t[j] = s[j + 1]
      BY <1>2
    <3>2. CASE j > i
      BY <1>1, <2>2, <3>1, <3>2
    <3>3. CASE j < i
      <4>1. 1 < i + 1 /\ j + 1 < i + 1
        BY <1>1, <3>3
      <4> QED
        BY <1>2, <2>1, <2>2, <3>1, <4>1
    <3> QED
      BY <1>1, <2>3, <3>2, <3>3
  <2> QED
    BY <2>2, <2>3
<1>7. Head(s) = "ACK" => OnlyC(t) /\ (Without(t, "C") \/ alone)
  BY <1>6 DEF OnlyC, Without, n
<1> QED
  BY <1>4, <1>5, <1>7 DEF t

\* A byte arrives.
LEMMA AppendFacts ==
    ASSUME NEW S, NEW s \in Seq(S), NEW x \in S
    PROVE  /\ Idle(s) => Sole(Append(s, x))
           /\ x = "ETX" => /\ Idle(s) => Idle(Append(s, x))
                           /\ Sole(s) => Sole(Append(s, x))
                           /\ OnlyC(s) => OnlyC(Append(s, x))
                           /\ \A alone : OldestC(s, alone) => OldestC(Append(s, x), alone)
           /\ \A b : Without(s, b) /\ x # b => Without(Append(s, x), b)
           /\ \A B : Within(s, B) /\ x \in B => Within(Append(s, x), B)
           /\ OldestC(s, FALSE) /\ x # "C" => OldestC(Append(s, x), FALSE)
           /\ Clear(s) => OnlyC(Append(s, x)) /\ OldestC(Append(s, x), FALSE)
           /\ Clear(s) => AtMostOne(Append(s, x))
<1> DEFINE t == Append(s, x)
           n == Len(s)
<1>1. n \in Nat /\ Len(t) = n + 1 /\ (\A i \in 1 .. n : t[i] = s[i]) /\ t[n + 1] = x
  BY AppendElements
<1>2. \A i \in 1 .. Len(t) : (i \in 1 .. n /\ i < n + 1) \/ i = n + 1
  BY <1>1
<1>3. 1 .. n \subseteq 1 .. Len(t) /\ n + 1 \in 1 .. Len(t)
  BY <1>1
<1>4. Clear(s) => n = 0
  BY DEF Clear
<1> HIDE DEF t, n
<1>5. /\ Idle(s) => Sole(t)
      /\ x = "ETX" /\ Idle(s) => Idle(t)
      /\ x = "ETX" /\ Sole(s) => Sole(t)
      /\ x = "ETX" /\ OnlyC(s) => OnlyC(t)
  BY <1>1, <1>2 DEF Idle, Sole, OnlyC, n
<1>6. /\ \A b : Without(s, b) /\ x # b => Without(t, b)
      /\ \A B : Within(s, B) /\ x \in B => Within(t, B)
  BY <1>1, <1>2 DEF Without, Within, n
<1>7. ASSUME x = "ETX", NEW alone, OldestC(s, alone) PROVE OldestC(t, alone)
  <2>1. ASSUME NEW i \in 1 .. Len(t), t[i] = "C" PROVE i \in 1 .. n /\ s[i] = "C"
    BY <1>1, <1>2, <1>7, <2>1
  <2> QED
    BY <1>1, <1>2, <1>7, <2>1 DEF OldestC, n
<1>8. ASSUME OldestC(s, FALSE), x # "C" PROVE OldestC(t, FALSE)
  <2>1. ASSUME NEW i \in 1 .. Len(t), t[i] = "C"
        PROVE  i \in 1 .. n /\ s[i] = "C" /\ \A j \in 1 .. Len(t) : j < i => j \in 1 .. n
    BY <1>1, <1>2, <1>8, <2>1
  <2> QED
    BY <1>1, <1>8, <2>1 DEF OldestC, n
<1>9. Clear(s) => OnlyC(t) /\ OldestC(t, FALSE) /\ AtMostOne(t)
  <2> DEFINE m == Len(t)
  <2>1. ASSUME Clear(s) PROVE m = 1
    BY <1>1, <1>4, <2>1
  <2>2. OnlyC(t) <=> \A i, j \in 1 .. m : t[i] = "C" /\ j # i => t[j] = "ETX"
    BY DEF OnlyC
  <2>3. (\A i, j \in 1 .. m : t[i] = "C" => ~(j < i)) => OldestC(t, FALSE)
    BY DEF OldestC
  <2>4. AtMostOne(t) <=> m <= 1
    BY DEF AtMostOne
  <2> HIDE DEF m
  <2>5. ASSUME m = 1 PROVE \A i, j \in 1 .. m : i = j /\ ~(j < i)
    BY <2>5
  <2>6. Clear(s) => OnlyC(t)
    BY <2>1, <2>2, <2>5
  <2>7. Clear(s) => OldestC(t, FALSE)
    BY <2>1, <2>3, <2>5
  <2>8. Clear(s) => AtMostOne(t)
    BY <2>1, <2>4
  <2> QED
    BY <2>6, <2>7, <2>8
<1> QED
  BY <1>5, <1>6, <1>7, <1>8, <1>9 DEF t

\* A byte or a message is replaced by another of its kind.
LEMMA ReplaceFacts ==
    ASSUME NEW S, NEW s \in Seq(S), NEW x \in S, ~Clear(s)
    PROVE  LET t == [s EXCEPT ![1] = x]
           IN /\ t \in Seq(S) /\ ~Clear(t)
              /\ AtMostOne(s) => AtMostOne(t)
              /\ \A B : Within(s, B) /\ x \in B => Within(t, B)
              /\ \A b : Without(s, b) /\ x # b => Without(t, b)
<1> DEFINE t == [s EXCEPT ![1] = x]
           n == Len(s)
           N == 1 .. n
<1>1. /\ t \in Seq(S) /\ n \in Nat /\ 1 <= n /\ Len(t) = n /\ t[1] = x
      /\ \A i \in N : i # 1 => t[i] = s[i]
  BY ReplaceElements
<1>2. ~Clear(t)
  <2>1. Clear(t) => Len(t) = 0
    BY DEF Clear
  <2> QED
    BY <1>1, <2>1
<1> HIDE DEF t
<1>3. AtMostOne(s) => AtMostOne(t)
  BY <1>1 DEF AtMostOne
<1>4. /\ \A B : Within(s, B) <=> \A i \in N : s[i] \in B
      /\ \A B : Within(t, B) <=> \A i \in N : t[i] \in B
      /\ \A b : Without(s, b) <=> \A i \in N : s[i] # b
      /\ \A b : Without(t, b) <=> \A i \in N : t[i] # b
  BY <1>1 DEF Within, Without
<1> HIDE DEF n, N
<1>5. /\ \A B : Within(s, B) /\ x \in B => Within(t, B)
      /\ \A b : Without(s, b) /\ x # b => Without(t, b)
  BY <1>1, <1>4
<1> QED
  BY <1>1, <1>2, <1>3, <1>5 DEF t

\* An answer is garbled into one that is not a 'C'.
LEMMA ReplaceAnswer ==
    ASSUME NEW S, NEW s \in Seq(S), NEW x \in S, ~Clear(s), Head(s) # "ETX", x # "C"
    PROVE  LET t == [s EXCEPT ![1] = x]
           IN /\ ~Idle(s)
              /\ Sole(s) => Sole(t)
              /\ OnlyC(s) => OnlyC(t)
              /\ \A alone : OldestC(s, alone) => OldestC(t, alone)
<1> DEFINE t == [s EXCEPT ![1] = x]
           n == Len(s)
           N == 1 .. n
<1>1. /\ n \in Nat /\ 1 <= n /\ Len(t) = n /\ t[1] = x
      /\ \A i \in N : i # 1 => t[i] = s[i]
  BY ReplaceElements
<1>2. 1 \in N /\ Head(s) = s[1]
  BY <1>1, TailElements
<1> HIDE DEF t
<1>3. /\ Idle(s) <=> \A i \in N : s[i] = "ETX"
      /\ Sole(s) <=> \A i, j \in N : s[i] # "ETX" /\ s[j] # "ETX" => i = j
      /\ Sole(t) <=> \A i, j \in N : t[i] # "ETX" /\ t[j] # "ETX" => i = j
      /\ OnlyC(s) <=> \A i, j \in N : s[i] = "C" /\ j # i => s[j] = "ETX"
      /\ OnlyC(t) <=> \A i, j \in N : t[i] = "C" /\ j # i => t[j] = "ETX"
  BY <1>1 DEF Idle, Sole, OnlyC
<1>4. \A u \in {s, t} : \A alone : OldestC(u, alone) <=>
         \A i \in N : u[i] = "C" =>
            \/ \A j \in N : j < i => u[j] = "ETX"
            \/ /\ alone
               /\ \A j \in N : j > i => u[j] = "ETX"
               /\ \A j, k \in N : j < i /\ k < i /\ u[j] # "ETX" /\ u[k] # "ETX" => j = k
  BY <1>1 DEF OldestC
<1> HIDE DEF n, N
<1>5. \A i \in N : (t[i] # "ETX" => s[i] # "ETX") /\ (t[i] = "C" => s[i] = "C")
  BY <1>1, <1>2
<1>6. ~Idle(s) /\ (Sole(s) => Sole(t)) /\ (OnlyC(s) => OnlyC(t))
  BY <1>2, <1>3, <1>5
<1>7. ASSUME NEW alone, OldestC(s, alone) PROVE OldestC(t, alone)
  BY <1>4, <1>5, <1>7
<1> QED
  BY <1>6, <1>7 DEF t

\* An empty line
LEMMA ClearFacts ==
    ASSUME NEW s, Clear(s)
    PROVE  /\ Idle(s) /\ Sole(s) /\ OnlyC(s) /\ AtMostOne(s)
           /\ \A alone : OldestC(s, alone)
           /\ \A b : Without(s, b) /\ \A B : Within(s, B)
<1>1. s = <<>>
  BY DEF Clear
<1>2. Len(s) = 0
  BY <1>1
<1>3. 1 .. Len(s) = {}
  BY <1>2
<1>4. AtMostOne(s)
  BY <1>2 DEF AtMostOne
<1> QED
  BY <1>3, <1>4 DEF Idle, Sole, OnlyC, OldestC, Without, Within

LEMMA IdleFacts ==
    ASSUME NEW s, Idle(s)
    PROVE  /\ Sole(s) /\ OnlyC(s) /\ \A alone : OldestC(s, alone)
           /\ \A b : b # "ETX" => Without(s, b)
BY DEF Idle, Sole, OnlyC, OldestC, Without

\* The answer to the file's name: an acknowledgement, and a call for data.
LEMMA NameAnswered ==
    ASSUME NEW S, NEW s \in Seq(S), Idle(s), "ACK" \in S, "C" \in S
    PROVE  /\ s \o <<"ACK", "C">> = Append(Append(s, "ACK"), "C")
           /\ OldestC(Append(Append(s, "ACK"), "C"), TRUE)
<1> DEFINE u == Append(s, "ACK")
           t == Append(u, "C")
           n == Len(s)
<1>1. n \in Nat /\ u \in Seq(S) /\ Len(u) = n + 1 /\ (\A i \in 1 .. n : u[i] = s[i]) /\ u[n + 1] = "ACK"
  BY AppendElements
<1> HIDE DEF u
<1>2. Len(t) = Len(u) + 1 /\ (\A i \in 1 .. Len(u) : t[i] = u[i]) /\ t[Len(u) + 1] = "C"
  BY <1>1, AppendElements
<1> HIDE DEF t
<1>3. /\ Len(t) = n + 2 /\ t[n + 2] = "C" /\ t[n + 1] = "ACK"
      /\ \A i \in 1 .. n : t[i] = s[i]
  BY <1>1, <1>2
<1>4. \A i \in 1 .. n : s[i] = "ETX"
  BY DEF Idle, n
<1> HIDE DEF n
<1>5. \A i \in 1 .. n + 2 : i \in 1 .. n \/ i = n + 1 \/ i = n + 2
  BY <1>1
<1>6. OldestC(t, TRUE)
  <2>1. ASSUME NEW i \in 1 .. Len(t), t[i] = "C" PROVE i = n + 2
    BY <1>3, <1>4, <1>5, <2>1
  <2>2. ASSUME NEW j \in 1 .. Len(t), t[j] # "ETX", j < n + 2 PROVE j = n + 1
    BY <1>1, <1>3, <1>4, <1>5, <2>2
  <2>3. \A j \in 1 .. Len(t) : ~(j > n + 2)
    BY <1>1, <1>3
  <2> QED
    BY <2>1, <2>2, <2>3 DEF OldestC
<1>7. s \o <<"ACK", "C">> = Append(Append(s, "ACK"), "C")
  OBVIOUS
<1> QED
  BY <1>6, <1>7 DEF t, u

LEMMA OldestWeaker ==
    ASSUME NEW s
    PROVE  /\ OldestC(s, FALSE) => OldestC(s, TRUE)
           /\ Without(s, "C") => OnlyC(s)
BY DEF OldestC, OnlyC, Without

\* Two blocks in a row have different numbers.
LEMMA NextBlockDiffers ==
    ASSUME NEW x \in Nat, NEW M \in Nat \ {0, 1, 2}
    PROVE  x % M # (x + 1) % M
<1> SUFFICES ASSUME x % M = (x + 1) % M PROVE FALSE
  OBVIOUS
<1> DEFINE a == x \div M
           b == (x + 1) \div M
           r == x % M
           d == b - a
<1>1. /\ a \in Int /\ b \in Int /\ r \in Int
      /\ x = (M * a) + r /\ x + 1 = (M * b) + r
  OBVIOUS
<1> HIDE DEF a, b, r
<1>2. d \in Int /\ M * d = 1
  BY <1>1
<1> HIDE DEF d
<1> QED
  BY <1>2

\* What the sender may have put on the line since it began the phase.
SentIn(phase, block) ==
    CASE phase = "start" -> {}
      [] phase \in {"name", "first"} -> {[kind |-> "name", n |-> 0]}
      [] phase = "data" -> {[kind |-> "data", n |-> block % BlockMod]}
      [] OTHER -> {[kind |-> "eot", n |-> 0], [kind |-> "null", n |-> 0]}
Phases == {"start", "name", "first", "data", "eot", "last", "null"}
Trailing == {"eot", "last", "null"}

\* The answers the phases await.
LEMMA AwaitsIs ==
    /\ DOMAIN Awaits = Phases
    /\ \A p \in {"start", "first", "last"} : Awaits[p] = "C"
    /\ \A p \in {"name", "data", "eot", "null"} : Awaits[p] = "ACK"
BY DEF Awaits, Phases

LEMMA SentIs ==
    ASSUME NEW block, NEW m
    PROVE  /\ m \notin SentIn("start", block)
           /\ \A p \in {"name", "first"} : m \in SentIn(p, block) => m.kind = "name"
           /\ m \in SentIn("data", block) => m.kind = "data" /\ m.n = block % BlockMod
           /\ \A p \in Trailing : m \in SentIn(p, block) => m.kind \in {"eot", "null"}
<1>1. m \notin SentIn("start", block)
  BY DEF SentIn
<1>2. ASSUME NEW p \in {"name", "first"}, m \in SentIn(p, block) PROVE m.kind = "name"
  BY <1>2 DEF SentIn
<1>3. ASSUME m \in SentIn("data", block) PROVE m.kind = "data" /\ m.n = block % BlockMod
  BY <1>3 DEF SentIn
<1>4. ASSUME NEW p \in Trailing, m \in SentIn(p, block) PROVE m.kind \in {"eot", "null"}
  BY <1>4 DEF SentIn, Trailing
<1> QED
  BY <1>1, <1>2, <1>3, <1>4

LEMMA SentSame ==
    ASSUME NEW b, NEW d
    PROVE  /\ SentIn("name", b) = SentIn("first", d)
           /\ \A p, q \in Trailing : SentIn(p, b) = SentIn(q, d)
BY DEF SentIn, Trailing

------------------------------------------------------------------------------
\* One thing is on its way: a block, an answer to it, or the next block.
OneOnTheWay ==
    /\ Sole(toBoard)
    /\ Clear(toPC) \/ (Idle(toBoard) /\ AtMostOne(toPC) /\ ymMode = "get")
    /\ ymMode = "put" => Idle(toBoard)

YmShape ==
    /\ ymPhase \in Phases /\ ymMode \in {"put", "get", "can", "end"}
    /\ ymMode = "put" => Awaits[ymPhase] = "ACK"
    /\ ymTries \in 0 .. Retries /\ ymBlock \in 0 .. NBlocks
    /\ ymResult \in {"none", "OK", "CANCEL", "TIMEOUT", "SOURCE", "IO"}
    /\ ymResult = "OK" => ymPhase = "null"
    /\ ymMode # "end" => ymResult = "none"
    /\ toBoard \in Seq(Bytes) /\ toPC \in Seq(Messages)
    /\ Within(toPC, SentIn(ymPhase, ymBlock) \cup {Garbled, Cancelled})

\* How far the receiver is.
YmStored ==
    /\ got \in Int
    /\ ymPhase \in {"start", "name", "first"} => got = 0
    /\ ymPhase = "data" => ymBlock >= 1 /\ (got = ymBlock - 1 \/ got = ymBlock)
    /\ ymPhase \in Trailing => got = NBlocks

YmPeer ==
    /\ rcv \in {"start", "data", "eot2", "null", "closed", "gone"}
    /\ ymPhase = "start" => rcv \in {"start", "gone"}
    /\ ymPhase = "name" => rcv \in {"start", "data", "gone"}
    /\ ymPhase \in {"first", "data"} => rcv \in {"data", "gone"}
    /\ ymPhase \in Trailing => rcv # "start"

\* While the sender runs: an answer that it awaits is for what it sent last.
GoneIsSilent == rcv = "gone" => Without(toBoard, "ACK") /\ Without(toBoard, "C")
ThereIsNoCancel ==
    rcv # "gone" => /\ Without(toBoard, "CAN") /\ ymMode # "can"
                    /\ Within(toPC, SentIn(ymPhase, ymBlock) \cup {Garbled})
StartAnswers == rcv = "start" => OneOnTheWay /\ Without(toBoard, "ACK")
NameAnswers ==
    rcv = "data" /\ ymPhase = "name" =>
        /\ OldestC(toBoard, TRUE)
        /\ OldestC(toBoard, FALSE) \/ (Clear(toPC) /\ ymMode = "get")
FirstAnswers ==
    rcv = "data" /\ ymPhase = "first" =>
        OnlyC(toBoard) /\ (Without(toBoard, "C") \/ Clear(toPC))
DataAnswers ==
    rcv = "data" /\ ymPhase = "data" =>
        OneOnTheWay /\ (Without(toBoard, "ACK") \/ got = ymBlock)
YmAnswers ==
    /\ GoneIsSilent /\ ThereIsNoCancel /\ StartAnswers
    /\ NameAnswers /\ FirstAnswers /\ DataAnswers

YmInv == YmShape /\ YmStored /\ YmPeer /\ (ymMode # "end" => YmAnswers)

LEMMA MessageTypes ==
    ASSUME NEW S
    PROVE  /\ Garbled \in Messages /\ Cancelled \in Messages
           /\ Garbled \in S \cup {Garbled} /\ Garbled \in S \cup {Garbled, Cancelled}
           /\ Cancelled \in S \cup {Garbled, Cancelled}
           /\ Garbled.kind = "garbled" /\ Cancelled.kind = "CAN"
<1>1. Garbled \in Messages /\ Cancelled \in Messages
  BY DEF Garbled, Cancelled, Messages, Kinds
<1>2. Garbled.kind = "garbled" /\ Cancelled.kind = "CAN"
  BY DEF Garbled, Cancelled
<1> QED
  BY <1>1, <1>2

\* ymodem_send() returns.
LEMMA FinishKeeps ==
    ASSUME YmInv, NEW result \in {"OK", "CANCEL", "TIMEOUT", "SOURCE", "IO"},
           result = "OK" => ymPhase = "null", Finish(result),
           UNCHANGED receiver, toBoard' \in Seq(Bytes)
    PROVE  YmInv'
<1> DEFINE B == SentIn(ymPhase, ymBlock) \cup {Garbled, Cancelled}
<1>1. /\ ymResult' = result /\ ymMode' = "end" /\ ymPhase' = ymPhase
      /\ ymTries' = ymTries /\ ymBlock' = ymBlock /\ got' = got /\ rcv' = rcv
      /\ toPC' = toPC \/ toPC' = Append(toPC, Cancelled)
  BY DEF Finish, receiver, Cancelled
<1>2. toPC \in Seq(Messages) /\ Within(toPC, B)
  BY DEF YmInv, YmShape
<1>3. Cancelled \in Messages /\ Cancelled \in B
  BY MessageTypes
<1> HIDE DEF B
<1>4. toPC' \in Seq(Messages) /\ Within(toPC', B)
  <2>1. Append(toPC, Cancelled) \in Seq(Messages)
    BY <1>2, <1>3, AppendElements
  <2>2. Within(Append(toPC, Cancelled), B)
    BY <1>2, <1>3, AppendFacts
  <2> QED
    BY <1>1, <1>2, <2>1, <2>2
<1>5. YmShape'
  BY <1>1, <1>4 DEF YmInv, YmShape, B
<1>6. YmStored' /\ YmPeer'
  BY <1>1 DEF YmInv, YmStored, YmPeer
<1> QED
  BY <1>1, <1>5, <1>6 DEF YmInv

\* The sender stays in its phase, to send again or to wait on.
LEMMA StayKeeps ==
    ASSUME YmInv, ymMode # "end", ymMode' \in {"put", "get", "can"},
           UNCHANGED <<ymPhase, ymBlock, ymResult, toPC, receiver>>,
           ymTries' \in 0 .. Retries, toBoard' \in Seq(Bytes),
           ymMode' = "put" => Awaits[ymPhase] = "ACK",
           (YmAnswers)'
    PROVE  YmInv'
<1>1. /\ ymPhase' = ymPhase /\ ymBlock' = ymBlock /\ got' = got /\ rcv' = rcv
      /\ ymResult' = ymResult /\ toPC' = toPC
  BY DEF receiver
<1>2. YmShape'
  BY <1>1 DEF YmInv, YmShape
<1>3. YmStored' /\ YmPeer'
  BY <1>1 DEF YmInv, YmStored, YmPeer
<1> QED
  BY <1>2, <1>3 DEF YmInv

\* What the sender does next when it is not answered.
LEMMA AgainDoes ==
    ASSUME YmInv, NEW silence \in BOOLEAN, Again(silence), ymMode # "end"
    PROVE  \/ Finish("TIMEOUT")
           \/ /\ ymMode' \in {"put", "get"} /\ ymTries' \in 0 .. Retries
              /\ UNCHANGED <<ymPhase, ymBlock, ymResult, toPC>>
              /\ ymMode' = "put" => Awaits[ymPhase] = "ACK"
<1>1. ymTries \in 0 .. Retries /\ Retries \in Nat /\ ymPhase \in Phases
  BY YmAssumption DEF YmInv, YmShape
<1>2. Awaits[ymPhase] = "C" \/ Awaits[ymPhase] = "ACK"
  BY <1>1, AwaitsIs DEF Phases
<1>3. CASE Awaits[ymPhase] = "C" /\ ~silence
  BY <1>1, <1>3 DEF Again
<1>4. CASE ~(Awaits[ymPhase] = "C" /\ ~silence) /\ ymTries >= Retries
  BY <1>4 DEF Again
<1>5. CASE ~(Awaits[ymPhase] = "C" /\ ~silence) /\ ~(ymTries >= Retries)
  <2>1. /\ ymTries' = ymTries + 1 /\ UNCHANGED <<ymPhase, ymBlock, ymResult, toPC>>
        /\ ymMode' = IF Awaits[ymPhase] = "C" THEN "get" ELSE "put"
    BY <1>5 DEF Again
  <2>2. ymTries' \in 0 .. Retries
    BY <1>1, <1>5, <2>1
  <2> QED
    BY <1>2, <2>1, <2>2
<1> QED
  BY <1>3, <1>4, <1>5

\* The line is empty: whatever is awaited, nothing wrong is on it.
LEMMA ClearIsAnswered ==
    ASSUME Clear(toBoard'), Clear(toPC'), rcv' # "gone" => ymMode' # "can"
    PROVE  YmAnswers'
<1>1. /\ Idle(toBoard') /\ Sole(toBoard') /\ OnlyC(toBoard')
      /\ OldestC(toBoard', TRUE) /\ OldestC(toBoard', FALSE)
      /\ Without(toBoard', "ACK") /\ Without(toBoard', "C") /\ Without(toBoard', "CAN")
  BY ClearFacts
<1>2. Within(toPC', SentIn(ymPhase', ymBlock') \cup {Garbled})
  BY ClearFacts
<1> QED
  BY <1>1, <1>2 DEF YmAnswers, GoneIsSilent, ThereIsNoCancel, StartAnswers, NameAnswers,
                    FirstAnswers, DataAnswers, OneOnTheWay

\* A byte that is not the answer awaited is taken off the line.
LEMMA IgnoredIsAnswered ==
    ASSUME YmInv, ymMode \in {"get", "can"}, ~Clear(toBoard), toBoard' = Tail(toBoard),
           Head(toBoard) # "ETX" \/ ymMode = "can",
           UNCHANGED <<ymPhase, ymBlock, toPC, receiver>>, ymMode' \in {"put", "get", "can"},
           ymMode' = "can" => rcv = "gone"
    PROVE  YmAnswers'
<1>1. /\ ymPhase' = ymPhase /\ ymBlock' = ymBlock /\ got' = got /\ rcv' = rcv /\ toPC' = toPC
  BY DEF receiver
<1>2. toBoard \in Seq(Bytes)
  BY DEF YmInv, YmShape
<1>3. YmAnswers
  BY DEF YmInv
<1>4. /\ \A b : Without(toBoard, b) => Without(toBoard', b)
      /\ Sole(toBoard) /\ Head(toBoard) # "ETX" => Idle(toBoard')
      /\ Sole(toBoard) => Sole(toBoard')
      /\ Idle(toBoard) => Head(toBoard) = "ETX"
      /\ OnlyC(toBoard) => OnlyC(toBoard')
  BY <1>2, TailFacts
<1>5. OldestC(toBoard, TRUE) /\ Head(toBoard) # "ETX" => OldestC(toBoard', FALSE)
  BY <1>2, TailOldest
<1>6. rcv # "gone" => ymMode # "can" /\ Head(toBoard) # "ETX"
  BY <1>3 DEF YmAnswers, ThereIsNoCancel
<1>7. GoneIsSilent'
  BY <1>1, <1>3, <1>4 DEF YmAnswers, GoneIsSilent
<1>8. ThereIsNoCancel'
  BY <1>1, <1>3, <1>4 DEF YmAnswers, ThereIsNoCancel
<1>9. rcv # "gone" /\ OneOnTheWay => OneOnTheWay'
  BY <1>1, <1>4, <1>6 DEF OneOnTheWay
<1>10. StartAnswers'
  BY <1>1, <1>3, <1>4, <1>9 DEF YmAnswers, StartAnswers
<1>11. NameAnswers'
  BY <1>1, <1>3, <1>5, <1>6, OldestWeaker DEF YmAnswers, NameAnswers
<1>12. FirstAnswers'
  BY <1>1, <1>3, <1>4 DEF YmAnswers, FirstAnswers
<1>13. DataAnswers'
  BY <1>1, <1>3, <1>4, <1>9 DEF YmAnswers, DataAnswers
<1> QED
  BY <1>7, <1>8, <1>10, <1>11, <1>12, <1>13 DEF YmAnswers

\* The answer awaited comes, and the next phase begins.
LEMMA AdvanceKeeps ==
    ASSUME YmInv, ymMode = "get", ~Clear(toBoard), toBoard' = Tail(toBoard),
           Head(toBoard) = Awaits[ymPhase], Advance, UNCHANGED receiver
    PROVE  YmInv'
<1>1. got' = got /\ rcv' = rcv
  BY DEF receiver
<1>2. /\ toBoard \in Seq(Bytes) /\ ymPhase \in Phases /\ ymBlock \in 0 .. NBlocks
      /\ NBlocks \in Nat /\ toPC \in Seq(Messages)
      /\ Within(toPC, SentIn(ymPhase, ymBlock) \cup {Garbled, Cancelled})
      /\ ymMode # "end" /\ ymResult = "none" /\ Retries \in Nat
  BY YmAssumption DEF YmInv, YmShape
<1>3. toBoard' \in Seq(Bytes)
  BY <1>2, TailElements
<1>4. YmAnswers
  BY <1>2 DEF YmInv
<1>5. Awaits[ymPhase] \in {"C", "ACK"}
  BY <1>2, AwaitsIs DEF Phases
<1>6. /\ \A b : Without(toBoard, b) => Without(toBoard', b) /\ Head(toBoard) # b
      /\ Sole(toBoard) /\ Head(toBoard) # "ETX" => Idle(toBoard')
      /\ Idle(toBoard) => Head(toBoard) = "ETX"
      /\ OnlyC(toBoard) /\ Head(toBoard) = "C" => Idle(toBoard')
  BY <1>2, TailFacts
<1>7. rcv # "gone" /\ Head(toBoard) # "ETX"
  BY <1>4, <1>5, <1>6 DEF YmAnswers, GoneIsSilent
<1>8. /\ Without(toBoard', "CAN")
      /\ Within(toPC, SentIn(ymPhase, ymBlock) \cup {Garbled})
  BY <1>4, <1>6, <1>7 DEF YmAnswers, ThereIsNoCancel
<1>9. OneOnTheWay => Idle(toBoard') /\ Clear(toPC)
  BY <1>6, <1>7 DEF OneOnTheWay
<1>10. Idle(toBoard') =>
         /\ Sole(toBoard') /\ OnlyC(toBoard') /\ OldestC(toBoard', TRUE) /\ OldestC(toBoard', FALSE)
         /\ Without(toBoard', "ACK") /\ Without(toBoard', "C")
  <2> SUFFICES ASSUME Idle(toBoard')
               PROVE  /\ Sole(toBoard') /\ OnlyC(toBoard')
                      /\ OldestC(toBoard', TRUE) /\ OldestC(toBoard', FALSE)
                      /\ Without(toBoard', "ACK") /\ Without(toBoard', "C")
    OBVIOUS
  <2>1. \A b : b # "ETX" => Without(toBoard', b)
    BY IdleFacts
  <2>2. Without(toBoard', "ACK") /\ Without(toBoard', "C")
    BY <2>1
  <2>3. Sole(toBoard') /\ OnlyC(toBoard')
    BY IdleFacts
  <2>4. \A alone : OldestC(toBoard', alone)
    BY IdleFacts
  <2>5. OldestC(toBoard', TRUE) /\ OldestC(toBoard', FALSE)
    BY <2>4
  <2> QED
    BY <2>2, <2>3, <2>5
\* The next phase begins on an idle line.
<1>11. ASSUME NEW phase \in Phases, NEW block \in 0 .. NBlocks, YmEnter(phase, block),
              Idle(toBoard'), Clear(toPC), YmStored', YmPeer'
       PROVE  YmInv'
  <2>1. /\ ymPhase' = phase /\ ymBlock' = block /\ ymTries' = 0 /\ toPC' = toPC
        /\ ymMode' = (IF Awaits[phase] = "C" THEN "get" ELSE "put") /\ ymResult' = ymResult
    BY <1>11 DEF YmEnter
  <2>2. Awaits[phase] = "C" \/ Awaits[phase] = "ACK"
    BY AwaitsIs DEF Phases
  <2>3. \A B : Within(toPC, B)
    BY <1>11, ClearFacts
  <2>4. YmShape'
    BY <1>2, <1>3, <2>1, <2>2, <2>3 DEF YmShape
  <2>5. Clear(toPC')
    BY <1>11, <2>1
  <2>6. Within(toPC, SentIn(ymPhase', ymBlock') \cup {Garbled})
    BY <2>3
  <2>7. /\ GoneIsSilent' /\ StartAnswers' /\ NameAnswers' /\ FirstAnswers' /\ DataAnswers'
    BY <1>10, <1>11, <2>1, <2>5
       DEF GoneIsSilent, StartAnswers, NameAnswers, FirstAnswers, DataAnswers, OneOnTheWay
  <2>8. ThereIsNoCancel'
    BY <1>8, <2>1, <2>2, <2>6 DEF ThereIsNoCancel
  <2> QED
    BY <1>11, <2>4, <2>7, <2>8 DEF YmInv, YmAnswers
\* The next block, or the end of the transfer
<1>12. ASSUME NEW block \in 1 .. NBlocks + 1, DataOrEot(block), got = block - 1,
              Idle(toBoard'), Clear(toPC), rcv = "data"
       PROVE  YmInv'
  <2>1. CASE block <= NBlocks
    <3>1. YmEnter("data", block) /\ block \in 0 .. NBlocks /\ "data" \in Phases
      BY <1>2, <1>12, <2>1 DEF DataOrEot, Phases
    <3>2. ymPhase' = "data" /\ ymBlock' = block
      BY <3>1 DEF YmEnter
    <3>3. YmStored'
      BY <1>1, <1>2, <1>12, <3>2 DEF YmInv, YmStored, Trailing
    <3>4. YmPeer'
      BY <1>1, <1>12, <3>2 DEF YmPeer, Trailing
    <3> QED
      BY <1>11, <1>12, <3>1, <3>3, <3>4
  <2>2. CASE ~(block <= NBlocks)
    <3>1. YmEnter("eot", ymBlock) /\ "eot" \in Phases
      BY <1>12, <2>2 DEF DataOrEot, Phases
    <3>2. ymPhase' = "eot"
      BY <3>1 DEF YmEnter
    <3>3. got = NBlocks
      BY <1>2, <1>12, <2>2
    <3>4. YmStored'
      BY <1>1, <1>2, <3>2, <3>3 DEF YmInv, YmStored, Trailing
    <3>5. YmPeer'
      BY <1>1, <1>12, <3>2 DEF YmPeer, Trailing
    <3> QED
      BY <1>2, <1>11, <1>12, <3>1, <3>4, <3>5
  <2> QED
    BY <2>1, <2>2
<1>13. CASE ymPhase = "start"
  <2>1. YmEnter("name", 0) /\ "name" \in Phases /\ 0 \in 0 .. NBlocks
    BY <1>2, <1>13 DEF Advance, Phases
  <2>2. rcv = "start" /\ got = 0
    BY <1>7, <1>13 DEF YmInv, YmPeer, YmStored
  <2>3. Idle(toBoard') /\ Clear(toPC)
    BY <1>4, <1>9, <2>2 DEF YmAnswers, StartAnswers
  <2>4. ymPhase' = "name"
    BY <2>1 DEF YmEnter
  <2>5. YmStored' /\ YmPeer'
    BY <1>1, <2>2, <2>4 DEF YmStored, YmPeer, Trailing
  <2> QED
    BY <1>11, <2>1, <2>3, <2>5
<1>14. CASE ymPhase = "name"
  <2>1. YmEnter("first", 0) /\ Head(toBoard) = "ACK"
    BY <1>14, AwaitsIs DEF Advance
  <2>2. rcv = "data" /\ got = 0
    <3>1. rcv # "start"
      BY <1>4, <1>6, <2>1 DEF YmAnswers, StartAnswers
    <3> QED
      BY <1>7, <1>14, <3>1 DEF YmInv, YmPeer, YmStored
  <2>3. /\ ymPhase' = "first" /\ ymBlock' = 0 /\ ymTries' = 0 /\ toPC' = toPC
        /\ ymMode' = "get" /\ ymResult' = ymResult
    BY <2>1, AwaitsIs DEF YmEnter
  <2>4. /\ OldestC(toBoard, TRUE)
        /\ OldestC(toBoard, FALSE) \/ Clear(toPC)
    BY <1>4, <1>14, <2>2 DEF YmAnswers, NameAnswers
  <2>5. OnlyC(toBoard')
    BY <1>2, <2>1, <2>4, TailOldest
  <2>6. OldestC(toBoard, FALSE) => Without(toBoard', "C")
    BY <1>2, <2>1, TailOldest
  <2>7. SentIn(ymPhase, ymBlock) = SentIn("first", 0)
    BY <1>14, SentSame
  <2>8. YmShape'
    BY <1>2, <1>3, <2>3, <2>7 DEF YmShape, Phases
  <2>9. YmStored' /\ YmPeer'
    BY <1>1, <2>2, <2>3 DEF YmStored, YmPeer, Trailing
  <2>10. FirstAnswers'
    BY <2>3, <2>4, <2>5, <2>6 DEF FirstAnswers
  <2>11. ThereIsNoCancel'
    BY <1>8, <2>3, <2>7 DEF ThereIsNoCancel
  <2>12. GoneIsSilent' /\ StartAnswers' /\ NameAnswers' /\ DataAnswers'
    BY <1>1, <2>2, <2>3 DEF GoneIsSilent, StartAnswers, NameAnswers, DataAnswers
  <2> QED
    BY <2>8, <2>9, <2>10, <2>11, <2>12 DEF YmInv, YmAnswers
<1>15. CASE ymPhase = "first"
  <2>1. DataOrEot(1) /\ Head(toBoard) = "C"
    BY <1>15, AwaitsIs DEF Advance
  <2>2. rcv = "data" /\ got = 0
    BY <1>7, <1>15 DEF YmInv, YmPeer, YmStored
  <2>3. OnlyC(toBoard) /\ Clear(toPC)
    BY <1>4, <1>6, <1>15, <2>1, <2>2 DEF YmAnswers, FirstAnswers
  <2>4. Idle(toBoard')
    BY <1>6, <2>1, <2>3
  <2>5. 1 \in 1 .. NBlocks + 1 /\ got = 1 - 1
    BY <1>2, <2>2
  <2> QED
    BY <1>12, <2>1, <2>2, <2>3, <2>4, <2>5
<1>16. CASE ymPhase = "data"
  <2>1. DataOrEot(ymBlock + 1) /\ Head(toBoard) = "ACK"
    BY <1>16, AwaitsIs DEF Advance
  <2>2. rcv = "data"
    BY <1>7, <1>16 DEF YmInv, YmPeer
  <2>3. OneOnTheWay /\ got = ymBlock
    BY <1>4, <1>6, <1>16, <2>1, <2>2 DEF YmAnswers, DataAnswers
  <2>4. Idle(toBoard') /\ Clear(toPC)
    BY <1>9, <2>3
  <2>5. ymBlock + 1 \in 1 .. NBlocks + 1 /\ got = (ymBlock + 1) - 1
    BY <1>2, <2>3
  <2> QED
    BY <1>12, <2>1, <2>2, <2>4, <2>5
<1>17. CASE ymPhase \in {"eot", "last"}
  <2> DEFINE phase == IF ymPhase = "eot" THEN "last" ELSE "null"
  <2>1. YmEnter(phase, ymBlock)
    BY <1>17 DEF Advance
  <2>2. phase \in Trailing /\ ymPhase \in Trailing /\ phase \in Phases
    BY <1>17 DEF Trailing, Phases
  <2> HIDE DEF phase
  <2>3. /\ ymPhase' = phase /\ ymBlock' = ymBlock /\ ymTries' = 0 /\ toPC' = toPC
        /\ ymMode' = (IF Awaits[phase] = "C" THEN "get" ELSE "put") /\ ymResult' = ymResult
    BY <2>1 DEF YmEnter
  <2>4. Awaits[phase] = "C" \/ Awaits[phase] = "ACK"
    BY <2>2, AwaitsIs DEF Phases
  <2>5. SentIn(ymPhase, ymBlock) = SentIn(phase, ymBlock)
    BY <2>2, SentSame
  <2>6. YmShape'
    BY <1>2, <1>3, <2>2, <2>3, <2>4, <2>5 DEF YmShape
  <2>7. phase \notin {"start", "name", "first", "data"}
    BY <2>2 DEF Trailing
  <2>8. YmStored' /\ YmPeer'
    BY <1>1, <2>2, <2>3, <2>7 DEF YmInv, YmStored, YmPeer
  <2>9. ThereIsNoCancel'
    BY <1>8, <2>3, <2>4, <2>5 DEF ThereIsNoCancel
  <2>10. rcv # "start"
    BY <2>2 DEF YmInv, YmPeer
  <2>11. GoneIsSilent' /\ StartAnswers' /\ NameAnswers' /\ FirstAnswers' /\ DataAnswers'
    BY <1>1, <1>7, <2>3, <2>7, <2>10
       DEF GoneIsSilent, StartAnswers, NameAnswers, FirstAnswers, DataAnswers
  <2> QED
    BY <2>6, <2>8, <2>9, <2>11 DEF YmInv, YmAnswers
<1>18. CASE ymPhase = "null"
  <2>1. Finish("OK")
    BY <1>18 DEF Advance
  <2> QED
    BY <1>3, <1>18, <2>1, FinishKeeps
<1> QED
  BY <1>2, <1>13, <1>14, <1>15, <1>16, <1>17, <1>18 DEF Phases

\* What the sender puts on the line is a message of its phase.
LEMMA MessageIsSent ==
    ASSUME ymPhase \in {"name", "data", "eot", "null"}, ymBlock \in Int
    PROVE  Message \in Messages /\ Message \in SentIn(ymPhase, ymBlock)
<1>1. CASE ymPhase = "data"
  <2>1. Message = [kind |-> "data", n |-> ymBlock % BlockMod]
    BY <1>1 DEF Message
  <2>2. ymBlock % BlockMod \in Int
    BY YmAssumption
  <2>3. Message \in Messages
    BY <2>1, <2>2 DEF Messages, Kinds
  <2> QED
    BY <1>1, <2>1, <2>3 DEF SentIn
<1>2. CASE ymPhase = "name"
  <2>1. Message = [kind |-> "name", n |-> 0]
    BY <1>2 DEF Message
  <2> QED
    BY <1>2, <2>1 DEF SentIn, Messages, Kinds
<1>3. CASE ymPhase \in {"eot", "null"}
  <2>1. Message = [kind |-> ymPhase, n |-> 0]
    BY <1>3 DEF Message
  <2>2. Message \in Messages
    BY <1>3, <2>1 DEF Messages, Kinds
  <2>3. SentIn(ymPhase, ymBlock) = {[kind |-> "eot", n |-> 0], [kind |-> "null", n |-> 0]}
    BY <1>3 DEF SentIn
  <2> QED
    BY <1>3, <2>1, <2>2, <2>3
<1> QED
  BY <1>1, <1>2, <1>3

LEMMA PutKeeps ==
    ASSUME YmInv, YmPut
    PROVE  YmInv'
<1> DEFINE m == Message
           B == SentIn(ymPhase, ymBlock) \cup {Garbled, Cancelled}
           D == SentIn(ymPhase, ymBlock) \cup {Garbled}
<1>1. /\ ymMode = "put" /\ ymMode' = "get" /\ toPC' = Append(toPC, m) /\ toBoard' = toBoard
      /\ ymPhase' = ymPhase /\ ymBlock' = ymBlock /\ got' = got /\ rcv' = rcv
      /\ ymTries' = ymTries /\ ymResult' = ymResult
  BY DEF YmPut, receiver
<1>2. /\ ymPhase \in Phases /\ Awaits[ymPhase] = "ACK" /\ ymBlock \in 0 .. NBlocks
      /\ toPC \in Seq(Messages) /\ Within(toPC, B) /\ YmAnswers
  BY <1>1 DEF YmInv, YmShape
<1>3. ymPhase \in {"name", "data", "eot", "null"}
  BY <1>2, AwaitsIs DEF Phases
<1>4. m \in Messages /\ m \in SentIn(ymPhase, ymBlock)
  <2>1. ymBlock \in Int
    BY <1>2
  <2> QED
    BY <1>3, <2>1, MessageIsSent
<1>5. m \in B /\ m \in D
  BY <1>4
<1> HIDE DEF m, B, D
<1>6. /\ Append(toPC, m) \in Seq(Messages)
      /\ Within(Append(toPC, m), B)
      /\ Within(toPC, D) => Within(Append(toPC, m), D)
      /\ Clear(toPC) => AtMostOne(Append(toPC, m))
  <2>1. Append(toPC, m) \in Seq(Messages)
    BY <1>2, <1>4, AppendElements
  <2>2. \A E : Within(toPC, E) /\ m \in E => Within(Append(toPC, m), E)
    BY <1>2, <1>4, AppendFacts
  <2>3. Clear(toPC) => AtMostOne(Append(toPC, m))
    BY <1>2, <1>4, AppendFacts
  <2> QED
    BY <1>2, <1>5, <2>1, <2>2, <2>3
<1>7. YmShape'
  BY <1>1, <1>2, <1>6 DEF YmInv, YmShape, B
<1>8. YmStored' /\ YmPeer'
  BY <1>1 DEF YmInv, YmStored, YmPeer
<1>9. GoneIsSilent' /\ ThereIsNoCancel'
  BY <1>1, <1>2, <1>6 DEF YmAnswers, GoneIsSilent, ThereIsNoCancel, D
<1>10. OneOnTheWay => OneOnTheWay'
  BY <1>1, <1>6 DEF OneOnTheWay
<1>11. StartAnswers' /\ DataAnswers'
  BY <1>1, <1>2, <1>10 DEF YmAnswers, StartAnswers, DataAnswers
<1>12. NameAnswers' /\ FirstAnswers'
  BY <1>1, <1>2, <1>3 DEF YmAnswers, NameAnswers, FirstAnswers
<1> QED
  BY <1>7, <1>8, <1>9, <1>11, <1>12 DEF YmInv, YmAnswers

LEMMA FailsKeeps ==
    ASSUME YmInv, YmFails
    PROVE  YmInv'
<1>1. UNCHANGED <<toBoard, receiver>> /\ toBoard \in Seq(Bytes)
  BY DEF YmFails, YmInv, YmShape
<1>2. PICK result \in {"SOURCE", "IO"} : Finish(result)
  BY DEF YmFails
<1> QED
  BY <1>1, <1>2, FinishKeeps

\* A byte that does not answer the phase is taken, and the sender goes on.
LEMMA IgnoreKeeps ==
    ASSUME YmInv, ymMode \in {"get", "can"}, ~Clear(toBoard), toBoard' = Tail(toBoard),
           Head(toBoard) # "ETX" \/ ymMode = "can", UNCHANGED receiver,
           Again(FALSE)
    PROVE  YmInv'
<1>1. toBoard' \in Seq(Bytes) /\ ymMode # "end"
  BY TailElements DEF YmInv, YmShape
<1>2. CASE Finish("TIMEOUT")
  BY <1>1, <1>2, FinishKeeps
<1>3. CASE /\ ymMode' \in {"put", "get"} /\ ymTries' \in 0 .. Retries
           /\ UNCHANGED <<ymPhase, ymBlock, ymResult, toPC>>
           /\ ymMode' = "put" => Awaits[ymPhase] = "ACK"
  <2>1. YmAnswers'
    BY <1>3, IgnoredIsAnswered
  <2> QED
    BY <1>1, <1>3, <2>1, StayKeeps
<1> QED
  BY <1>1, <1>2, <1>3, AgainDoes

LEMMA GetKeeps ==
    ASSUME YmInv, YmGet
    PROVE  YmInv'
<1>1. /\ ymMode = "get" /\ ~Clear(toBoard) /\ toBoard' = Tail(toBoard)
      /\ UNCHANGED receiver /\ Takes(Head(toBoard))
  BY DEF YmGet, Clear
<1>2. /\ toBoard \in Seq(Bytes) /\ ymPhase \in Phases /\ ymTries \in 0 .. Retries /\ YmAnswers
  BY <1>1 DEF YmInv, YmShape
<1>3. toBoard' \in Seq(Bytes)
  BY <1>1, <1>2, TailElements
<1>4. Awaits[ymPhase] \in {"C", "ACK"}
  BY <1>2, AwaitsIs DEF Phases
<1>5. CASE Head(toBoard) = Awaits[ymPhase]
  <2>1. Advance
    BY <1>1, <1>4, <1>5 DEF Takes
  <2> QED
    BY <1>1, <1>5, <2>1, AdvanceKeeps
<1>6. CASE Head(toBoard) = "ETX"
  <2>1. Finish("CANCEL")
    BY <1>1, <1>4, <1>6 DEF Takes
  <2> QED
    BY <1>1, <1>3, <2>1, FinishKeeps
<1>7. CASE Head(toBoard) = "CAN"
  <2>1. ymMode' = "can" /\ UNCHANGED <<ymPhase, ymTries, ymBlock, ymResult, toPC>>
    BY <1>1, <1>4, <1>7 DEF Takes
  <2>2. \A b : Without(toBoard, b) => Head(toBoard) # b
    BY <1>1, <1>2, TailFacts
  <2>3. rcv = "gone"
    BY <1>2, <1>7, <2>2 DEF YmAnswers, ThereIsNoCancel
  <2>4. YmAnswers'
    BY <1>1, <1>7, <2>1, <2>3, IgnoredIsAnswered
  <2> QED
    BY <1>1, <1>2, <1>3, <2>1, <2>4, StayKeeps
<1>8. CASE Head(toBoard) \notin {Awaits[ymPhase], "ETX", "CAN"}
  <2>1. Again(FALSE)
    BY <1>1, <1>8 DEF Takes
  <2> QED
    BY <1>1, <1>8, <2>1, IgnoreKeeps
<1> QED
  BY <1>5, <1>6, <1>7, <1>8

LEMMA SecondCanKeeps ==
    ASSUME YmInv, YmSecondCan
    PROVE  YmInv'
<1>1. /\ ymMode = "can" /\ ~Clear(toBoard) /\ toBoard' = Tail(toBoard) /\ UNCHANGED receiver
      /\ IF Head(toBoard) = "CAN" THEN Finish("CANCEL") ELSE Again(FALSE)
  BY DEF YmSecondCan, Clear
<1>2. toBoard' \in Seq(Bytes)
  BY <1>1, TailElements DEF YmInv, YmShape
<1>3. CASE Finish("CANCEL")
  BY <1>1, <1>2, <1>3, FinishKeeps
<1>4. CASE Again(FALSE)
  BY <1>1, <1>4, IgnoreKeeps
<1> QED
  BY <1>1, <1>3, <1>4

\* With prompt replies, silence is an empty line.
LEMMA TimeoutKeeps ==
    ASSUME YmInv, YmTimeout, Prompt
    PROVE  YmInv'
<1>1. /\ Clear(toBoard) /\ Clear(toPC) /\ toBoard' = toBoard /\ UNCHANGED receiver
      /\ ymMode \in {"get", "can"}
  BY DEF YmTimeout, Silence, Clear
<1>2. PICK silence \in BOOLEAN : Again(silence)
  BY DEF YmTimeout
<1>3. toBoard' \in Seq(Bytes) /\ ymMode # "end"
  BY <1>1 DEF YmInv, YmShape
<1>4. CASE Finish("TIMEOUT")
  BY <1>1, <1>3, <1>4, FinishKeeps
<1>5. CASE /\ ymMode' \in {"put", "get"} /\ ymTries' \in 0 .. Retries
           /\ UNCHANGED <<ymPhase, ymBlock, ymResult, toPC>>
           /\ ymMode' = "put" => Awaits[ymPhase] = "ACK"
  <2>1. YmAnswers'
    BY <1>1, <1>5, ClearIsAnswered
  <2> QED
    BY <1>1, <1>3, <1>5, <2>1, StayKeeps
<1> QED
  BY <1>2, <1>3, <1>4, <1>5, AgainDoes

\* What the receiver puts on the line.
LEMMA HearIs ==
    ASSUME NEW phase, NEW n, toBoard \in Seq(Bytes)
    PROVE  /\ Hear(phase, n, <<>>) => rcv' = phase /\ got' = n /\ toBoard' = toBoard
           /\ \A b \in Bytes : Hear(phase, n, <<b>>) =>
                 rcv' = phase /\ got' = n /\ toBoard' = Append(toBoard, b)
           /\ Hear(phase, n, <<"ACK", "C">>) =>
                 rcv' = phase /\ got' = n /\ toBoard' = Append(Append(toBoard, "ACK"), "C")
           /\ Hear(phase, n, <<"CAN", "CAN">>) =>
                 rcv' = phase /\ got' = n /\ toBoard' = Append(Append(toBoard, "CAN"), "CAN")
<1>1. toBoard \o <<>> = toBoard
  OBVIOUS
<1>2. \A b \in Bytes : toBoard \o <<b>> = Append(toBoard, b)
  BY AppendElements
<1>3. toBoard \o <<"ACK", "C">> = Append(Append(toBoard, "ACK"), "C")
  OBVIOUS
<1>4. toBoard \o <<"CAN", "CAN">> = Append(Append(toBoard, "CAN"), "CAN")
  OBVIOUS
<1>5. Hear(phase, n, <<>>) => rcv' = phase /\ got' = n /\ toBoard' = toBoard
  BY <1>1 DEF Hear, Reply
<1>6. ASSUME NEW b \in Bytes, Hear(phase, n, <<b>>)
      PROVE  rcv' = phase /\ got' = n /\ toBoard' = Append(toBoard, b)
  BY <1>2, <1>6 DEF Hear, Reply
<1>7. Hear(phase, n, <<"ACK", "C">>) =>
         rcv' = phase /\ got' = n /\ toBoard' = Append(Append(toBoard, "ACK"), "C")
  BY <1>3 DEF Hear, Reply
<1>8. Hear(phase, n, <<"CAN", "CAN">>) =>
         rcv' = phase /\ got' = n /\ toBoard' = Append(Append(toBoard, "CAN"), "CAN")
  BY <1>4 DEF Hear, Reply
<1> QED
  BY <1>5, <1>6, <1>7, <1>8

\* The receiver's answer to a message.
Answered(b) == toBoard' = Append(toBoard, b)
AnsweredTwice(b, c) == toBoard' = Append(Append(toBoard, b), c)
Kept == rcv' = rcv /\ got' = got

LEMMA HearsDoes ==
    ASSUME NEW m, RcvHears(m), toBoard \in Seq(Bytes)
    PROVE  \/ rcv' = "gone" /\ got' = got /\ toBoard' = toBoard /\ m.kind = "CAN"
           \/ rcv \in {"start", "null"} /\ Kept /\ Answered("C") /\ m.kind = "garbled"
           \/ rcv \in {"data", "eot2"} /\ Kept /\ Answered("NAK") /\ m.kind = "garbled"
           \/ rcv = "start" /\ rcv' = "data" /\ got' = 0 /\ AnsweredTwice("ACK", "C") /\ m.kind = "name"
           \/ /\ rcv = "data" /\ rcv' = "data" /\ got' = got + 1 /\ Answered("ACK")
              /\ m.kind = "data" /\ m.n = (got + 1) % BlockMod
           \/ rcv = "data" /\ Kept /\ Answered("ACK") /\ m.kind = "data" /\ m.n = got % BlockMod
           \/ /\ rcv = "data" /\ rcv' = "gone" /\ got' = got /\ AnsweredTwice("CAN", "CAN")
              /\ m.kind = "data" /\ m.n # (got + 1) % BlockMod /\ m.n # got % BlockMod
           \/ rcv = "data" /\ Kept /\ Answered("ACK") /\ m.kind = "name"
           \/ /\ rcv \in {"data", "eot2", "null"} /\ rcv' = "null" /\ got' = got
              /\ AnsweredTwice("ACK", "C") /\ m.kind = "eot"
           \/ rcv = "data" /\ rcv' = "eot2" /\ got' = got /\ Answered("NAK") /\ m.kind = "eot"
           \/ rcv \in {"eot2", "null"} /\ Kept /\ Answered("ACK") /\ m.kind = "data"
           \/ rcv = "null" /\ rcv' = "closed" /\ got' = got /\ Answered("ACK") /\ m.kind = "null"
           \/ /\ Kept /\ toBoard' = toBoard /\ m.kind # "CAN"
              /\ rcv = "start" => m.kind \notin {"name", "garbled"}
              /\ rcv = "data" => m.kind = "null"
<1>1. "C" \in Bytes /\ "ACK" \in Bytes /\ "NAK" \in Bytes
  BY DEF Bytes
<1>2. \A p, n : /\ Hear(p, n, <<>>) => rcv' = p /\ got' = n /\ toBoard' = toBoard
                /\ \A b \in {"C", "ACK", "NAK"} :
                      Hear(p, n, <<b>>) => rcv' = p /\ got' = n /\ Answered(b)
                /\ Hear(p, n, <<"ACK", "C">>) => rcv' = p /\ got' = n /\ AnsweredTwice("ACK", "C")
                /\ Hear(p, n, <<"CAN", "CAN">>) => rcv' = p /\ got' = n /\ AnsweredTwice("CAN", "CAN")
  BY <1>1, HearIs DEF Answered, AnsweredTwice
<1>3. CASE m.kind = "CAN" /\ Hear("gone", got, <<>>)
  BY <1>2, <1>3
<1>4. CASE m.kind = "garbled" /\ rcv \in {"start", "null"} /\ Hear(rcv, got, <<"C">>)
  BY <1>2, <1>4 DEF Kept
<1>5. CASE m.kind = "garbled" /\ rcv \in {"data", "eot2"} /\ Hear(rcv, got, <<"NAK">>)
  BY <1>2, <1>5 DEF Kept
<1>6. CASE rcv = "start" /\ m.kind = "name" /\ Hear("data", 0, <<"ACK", "C">>)
  BY <1>2, <1>6
<1>7. CASE rcv = "data" /\ m.kind = "data" /\ m.n = (got + 1) % BlockMod /\ Hear("data", got + 1, <<"ACK">>)
  BY <1>2, <1>7
<1>8. CASE rcv = "data" /\ m.kind = "data" /\ m.n = got % BlockMod /\ Hear("data", got, <<"ACK">>)
  BY <1>2, <1>8 DEF Kept
<1>9. CASE /\ rcv = "data" /\ m.kind = "data"
           /\ m.n \notin {(got + 1) % BlockMod, got % BlockMod} /\ Hear("gone", got, <<"CAN", "CAN">>)
  BY <1>2, <1>9
<1>10. CASE rcv = "data" /\ m.kind = "name" /\ Hear("data", got, <<"ACK">>)
  BY <1>2, <1>10 DEF Kept
<1>11. CASE rcv \in {"data", "eot2", "null"} /\ m.kind = "eot" /\ Hear("null", got, <<"ACK", "C">>)
  BY <1>2, <1>11
<1>12. CASE rcv = "data" /\ m.kind = "eot" /\ Hear("eot2", got, <<"NAK">>)
  BY <1>2, <1>12
<1>13. CASE rcv \in {"eot2", "null"} /\ m.kind = "data" /\ Hear(rcv, got, <<"ACK">>)
  BY <1>2, <1>13 DEF Kept
<1>14. CASE rcv = "null" /\ m.kind = "null" /\ Hear("closed", got, <<"ACK">>)
  BY <1>2, <1>14
<1>15. CASE /\ Hear(rcv, got, <<>>)
            /\ \/ rcv \in {"closed", "gone"} /\ m.kind # "CAN"
               \/ rcv = "start" /\ m.kind \notin {"name", "garbled", "CAN"}
               \/ rcv \in {"data", "eot2"} /\ m.kind = "null"
               \/ rcv \in {"eot2", "null"} /\ m.kind = "name"
  <2>1. rcv' = rcv /\ got' = got /\ toBoard' = toBoard
    BY <1>2, <1>15
  <2>2. /\ m.kind # "CAN"
        /\ rcv = "start" => m.kind \notin {"name", "garbled"}
        /\ rcv = "data" => m.kind = "null"
    BY <1>15
  <2> QED
    BY <2>1, <2>2 DEF Kept
<1> QED
  BY <1>3, <1>4, <1>5, <1>6, <1>7, <1>8, <1>9, <1>10, <1>11, <1>12, <1>13, <1>14, <1>15 DEF RcvHears

\* A message arrives: how far the receiver gets.
LEMMA HeardIsStored ==
    ASSUME YmInv, RcvStep
    PROVE  /\ YmShape' /\ YmStored' /\ YmPeer'
           /\ \/ rcv' = rcv
              \/ rcv' = "gone" /\ Head(toPC).kind = "CAN"
              \/ rcv = "start" /\ ymPhase = "name" /\ rcv' = "data"
              \/ rcv \in {"data", "eot2", "null"} /\ ymPhase \in Trailing /\ rcv' \in {"null", "eot2", "closed"}
<1> DEFINE m == Head(toPC)
           B == SentIn(ymPhase, ymBlock) \cup {Garbled, Cancelled}
<1>1. /\ ~Clear(toPC) /\ toPC' = Tail(toPC) /\ RcvHears(m)
      /\ ymPhase' = ymPhase /\ ymMode' = ymMode /\ ymTries' = ymTries /\ ymBlock' = ymBlock
      /\ ymResult' = ymResult
  BY DEF RcvStep, sender, Clear
<1>2. /\ toBoard \in Seq(Bytes) /\ toPC \in Seq(Messages) /\ Within(toPC, B) /\ ymPhase \in Phases
      /\ ymBlock \in 0 .. NBlocks /\ NBlocks \in Nat
  BY YmAssumption DEF YmInv, YmShape
<1>3. toPC' \in Seq(Messages) /\ Within(toPC', B) /\ m \in B
  BY <1>1, <1>2, TailElements, TailFacts
<1>4. m \in SentIn(ymPhase, ymBlock) \/ m.kind = "garbled" \/ m.kind = "CAN"
  BY <1>3 DEF Garbled, Cancelled
<1>5. /\ ymPhase = "start" => m.kind \in {"garbled", "CAN"}
      /\ ymPhase \in {"name", "first"} => m.kind \in {"name", "garbled", "CAN"}
      /\ ymPhase = "data" => m.kind \in {"garbled", "CAN"} \/ (m.kind = "data" /\ m.n = ymBlock % BlockMod)
      /\ ymPhase \in Trailing => m.kind \in {"eot", "null", "garbled", "CAN"}
  BY <1>4, SentIs
<1> HIDE DEF m
<1>6. \A b \in {"C", "ACK", "NAK", "CAN"} : Answered(b) => toBoard' \in Seq(Bytes)
  BY <1>2, AppendElements DEF Answered, Bytes
<1>7. \A b, c \in {"C", "ACK", "NAK", "CAN"} : AnsweredTwice(b, c) => toBoard' \in Seq(Bytes)
  <2> SUFFICES ASSUME NEW b \in {"C", "ACK", "NAK", "CAN"}, NEW c \in {"C", "ACK", "NAK", "CAN"},
                      AnsweredTwice(b, c)
               PROVE  toBoard' \in Seq(Bytes)
    OBVIOUS
  <2>1. b \in Bytes /\ c \in Bytes
    BY DEF Bytes
  <2>2. Append(toBoard, b) \in Seq(Bytes)
    BY <1>2, <2>1, AppendElements
  <2>3. Append(Append(toBoard, b), c) \in Seq(Bytes)
    BY <2>1, <2>2, AppendElements
  <2> QED
    BY <2>3 DEF AnsweredTwice
<1>8. toBoard' \in Seq(Bytes)
  <2>1. \/ toBoard' = toBoard
        \/ \E b \in {"C", "ACK", "NAK", "CAN"} : Answered(b)
        \/ \E b, c \in {"C", "ACK", "NAK", "CAN"} : AnsweredTwice(b, c)
    BY <1>1, <1>2, HearsDoes
  <2> QED
    BY <1>2, <1>6, <1>7, <2>1
<1>9. YmShape'
  BY <1>1, <1>3, <1>8 DEF YmInv, YmShape
<1>10. YmStored /\ YmPeer
  BY DEF YmInv
<1>11. CASE ymPhase = "start"
  <2>1. rcv \in {"start", "gone"} /\ got = 0
    BY <1>10, <1>11 DEF YmStored, YmPeer
  <2>2. Kept \/ (rcv' = "gone" /\ got' = got /\ m.kind = "CAN")
    BY <1>1, <1>2, <1>5, <1>11, <2>1, HearsDoes
  <2>3. YmStored' /\ YmPeer'
    BY <1>1, <1>10, <1>11, <2>1, <2>2 DEF Kept, YmStored, YmPeer, Trailing
  <2> QED
    BY <1>9, <2>2, <2>3 DEF Kept, m
<1>12. CASE ymPhase \in {"name", "first"}
  <2>1. /\ rcv \in {"start", "data", "gone"} /\ got = 0
        /\ rcv = "start" => ymPhase = "name"
    BY <1>10, <1>12 DEF YmStored, YmPeer
  <2>2. \/ Kept
        \/ rcv' = "gone" /\ got' = got /\ m.kind = "CAN"
        \/ rcv = "start" /\ rcv' = "data" /\ got' = 0
    BY <1>1, <1>2, <1>5, <1>12, <2>1, HearsDoes
  <2>3. YmStored' /\ YmPeer'
    BY <1>1, <1>10, <1>12, <2>1, <2>2 DEF Kept, YmStored, YmPeer, Trailing
  <2> QED
    BY <1>9, <2>1, <2>2, <2>3 DEF Kept, m
<1>13. CASE ymPhase = "data"
  <2>1. rcv \in {"data", "gone"} /\ got \in Int /\ ymBlock >= 1 /\ (got = ymBlock - 1 \/ got = ymBlock)
    BY <1>10, <1>13 DEF YmStored, YmPeer
  <2>2. (ymBlock - 1) % BlockMod # ymBlock % BlockMod /\ ymBlock % BlockMod # (ymBlock + 1) % BlockMod
    <3> DEFINE x == ymBlock - 1
               y == ymBlock
    <3>1. x \in Nat /\ y \in Nat /\ x + 1 = y /\ BlockMod \in Nat \ {0, 1, 2}
      BY <1>2, <2>1, YmAssumption
    <3>2. x % BlockMod # (x + 1) % BlockMod /\ y % BlockMod # (y + 1) % BlockMod
      BY <3>1, NextBlockDiffers
    <3> QED
      BY <3>1, <3>2
  <2>3. \/ Kept
        \/ rcv' = "gone" /\ got' = got /\ m.kind = "CAN"
        \/ rcv = "data" /\ rcv' = "data" /\ got' = got + 1 /\ ymBlock % BlockMod = (got + 1) % BlockMod
        \/ /\ ymBlock % BlockMod # (got + 1) % BlockMod
           /\ ymBlock % BlockMod # got % BlockMod
    BY <1>1, <1>2, <1>5, <1>13, <2>1, HearsDoes
  <2>4. got = ymBlock - 1 => got + 1 = ymBlock
    BY <1>2, <2>1
  <2>5. \/ Kept
        \/ rcv' = "gone" /\ got' = got /\ m.kind = "CAN"
        \/ rcv = "data" /\ rcv' = "data" /\ got' = ymBlock
    BY <2>1, <2>2, <2>3, <2>4
  <2>6. YmStored' /\ YmPeer'
    BY <1>1, <1>2, <1>10, <1>13, <2>1, <2>5 DEF Kept, YmStored, YmPeer, Trailing
  <2> QED
    BY <1>9, <2>5, <2>6 DEF Kept, m
<1>14. CASE ymPhase \in Trailing
  <2>1. rcv \in {"data", "eot2", "null", "closed", "gone"} /\ got = NBlocks
    BY <1>10, <1>14 DEF YmStored, YmPeer
  <2>2. \/ Kept
        \/ rcv' = "gone" /\ got' = got /\ m.kind = "CAN"
        \/ rcv \in {"data", "eot2", "null"} /\ rcv' \in {"null", "eot2", "closed"} /\ got' = got
    BY <1>1, <1>2, <1>5, <1>14, <2>1, HearsDoes
  <2>3. ymPhase \notin {"start", "name", "first", "data"}
    BY <1>14 DEF Trailing
  <2>4. YmStored' /\ YmPeer'
    BY <1>1, <1>10, <1>14, <2>1, <2>2, <2>3 DEF Kept, YmStored, YmPeer
  <2> QED
    BY <1>9, <1>14, <2>2, <2>4 DEF Kept, m
<1> QED
  BY <1>2, <1>11, <1>12, <1>13, <1>14 DEF Phases, Trailing

\* A message arrives: the answer is for what the sender sent last.
LEMMA HeardIsAnswered ==
    ASSUME YmInv, RcvStep, ymMode # "end"
    PROVE  YmAnswers'
<1> DEFINE m == Head(toPC)
           D == SentIn(ymPhase, ymBlock) \cup {Garbled}
<1>1. /\ ~Clear(toPC) /\ toPC' = Tail(toPC) /\ RcvHears(m)
      /\ ymPhase' = ymPhase /\ ymMode' = ymMode /\ ymBlock' = ymBlock
  BY DEF RcvStep, sender, Clear
<1>2. toBoard \in Seq(Bytes) /\ toPC \in Seq(Messages) /\ ymPhase \in Phases /\ ymBlock \in Int
  BY DEF YmInv, YmShape
<1>3. YmAnswers /\ YmPeer
  BY DEF YmInv
<1>4. /\ AtMostOne(toPC) => Clear(toPC')
      /\ Within(toPC, D) => Within(toPC', D) /\ m \in D
  BY <1>1, <1>2, TailFacts
<1>5. rcv # "gone" => Within(toPC', D) /\ m \in D /\ Without(toBoard, "CAN") /\ ymMode # "can"
  BY <1>3, <1>4 DEF YmAnswers, ThereIsNoCancel
<1>6. m \in D =>
      /\ ymPhase = "start" => m.kind = "garbled"
      /\ ymPhase \in {"name", "first"} => m.kind \in {"name", "garbled"}
      /\ ymPhase = "data" => m.kind = "garbled" \/ (m.kind = "data" /\ m.n = ymBlock % BlockMod)
      /\ ymPhase \in Trailing => m.kind \in {"eot", "null", "garbled"}
  <2>1. m \in D => m \in SentIn(ymPhase, ymBlock) \/ m.kind = "garbled"
    BY DEF Garbled
  <2> QED
    BY <2>1, SentIs
<1>7. OneOnTheWay => Idle(toBoard) /\ Clear(toPC') /\ ymMode = "get"
  BY <1>1, <1>4 DEF OneOnTheWay
<1> HIDE DEF m
\* What an answer leaves of the line.
<1>8. ASSUME NEW b \in {"C", "ACK", "NAK"}, Answered(b)
      PROVE  /\ Without(toBoard, "CAN") => Without(toBoard', "CAN")
             /\ Idle(toBoard) => Sole(toBoard')
             /\ Idle(toBoard) /\ b # "ACK" => Without(toBoard', "ACK")
             /\ OldestC(toBoard, FALSE) /\ b # "C" => OldestC(toBoard', FALSE)
             /\ Without(toBoard, "C") /\ b # "C" => Without(toBoard', "C")
  <2>1. b \in Bytes /\ toBoard' = Append(toBoard, b) /\ b # "CAN"
    BY <1>8 DEF Bytes, Answered
  <2>2. \A c : Without(toBoard, c) /\ b # c => Without(toBoard', c)
    BY <1>2, <2>1, AppendFacts
  <2>3. /\ Idle(toBoard) => Sole(toBoard')
        /\ OldestC(toBoard, FALSE) /\ b # "C" => OldestC(toBoard', FALSE)
    BY <1>2, <2>1, AppendFacts
  <2>4. Idle(toBoard) => Without(toBoard, "ACK")
    BY IdleFacts
  <2> QED
    BY <2>1, <2>2, <2>3, <2>4
<1>9. ASSUME AnsweredTwice("ACK", "C")
      PROVE  /\ Without(toBoard, "CAN") => Without(toBoard', "CAN")
             /\ Idle(toBoard) => OldestC(toBoard', TRUE)
  <2>1. "ACK" \in Bytes /\ "C" \in Bytes /\ toBoard' = Append(Append(toBoard, "ACK"), "C")
    BY <1>9 DEF Bytes, AnsweredTwice
  <2>2. Append(toBoard, "ACK") \in Seq(Bytes)
    BY <1>2, <2>1, AppendElements
  <2>3. \A c : Without(toBoard, c) /\ "ACK" # c => Without(Append(toBoard, "ACK"), c)
    BY <1>2, <2>1, AppendFacts
  <2>4. \A c : Without(Append(toBoard, "ACK"), c) /\ "C" # c => Without(toBoard', c)
    BY <2>1, <2>2, AppendFacts
  <2>5. Idle(toBoard) => OldestC(toBoard', TRUE)
    BY <1>2, <2>1, NameAnswered
  <2> QED
    BY <2>3, <2>4, <2>5
<1>10. CASE rcv = "gone"
  <2>1. rcv' = "gone" /\ toBoard' = toBoard
    BY <1>1, <1>2, <1>10, HearsDoes DEF Kept
  <2> QED
    BY <1>3, <1>10, <2>1 DEF YmAnswers, GoneIsSilent, ThereIsNoCancel, StartAnswers, NameAnswers,
                             FirstAnswers, DataAnswers
<1>11. CASE rcv # "gone"
  <2>1. rcv' # "gone" => Without(toBoard', "CAN")
    <3>1. \/ toBoard' = toBoard \/ rcv' = "gone" \/ AnsweredTwice("ACK", "C")
          \/ \E b \in {"C", "ACK", "NAK"} : Answered(b)
      BY <1>1, <1>2, HearsDoes
    <3> QED
      BY <1>5, <1>8, <1>9, <1>11, <3>1
  <2>2. ThereIsNoCancel'
    BY <1>1, <1>5, <1>11, <2>1 DEF ThereIsNoCancel, D
  <2>3. m.kind # "CAN"
    BY <1>2, <1>5, <1>6, <1>11 DEF Phases, Trailing
  <2>4. \/ rcv' = rcv
        \/ rcv = "start" /\ ymPhase = "name" /\ rcv' = "data"
        \/ ymPhase \in Trailing /\ rcv' \in {"null", "eot2", "closed"}
    BY <2>3, HeardIsStored DEF m
  <2>5. GoneIsSilent'
    BY <1>11, <2>4 DEF GoneIsSilent
  <2>6. StartAnswers'
    <3> SUFFICES ASSUME rcv' = "start" PROVE OneOnTheWay' /\ Without(toBoard', "ACK")
      BY DEF StartAnswers
    <3>1. rcv = "start" /\ ymPhase \in {"start", "name"}
      BY <1>2, <1>3, <2>4 DEF YmPeer, Phases, Trailing
    <3>2. m.kind \in {"name", "garbled"}
      BY <1>5, <1>6, <1>11, <3>1
    <3>3. Answered("C")
      BY <1>1, <1>2, <3>1, <3>2, HearsDoes
    <3>4. Idle(toBoard) /\ Clear(toPC') /\ ymMode = "get"
      BY <1>3, <1>7, <3>1 DEF YmAnswers, StartAnswers
    <3> QED
      BY <1>1, <1>8, <3>3, <3>4 DEF OneOnTheWay
  <2>7. NameAnswers'
    <3> SUFFICES ASSUME rcv' = "data", ymPhase = "name"
                 PROVE  /\ OldestC(toBoard', TRUE)
                        /\ OldestC(toBoard', FALSE) \/ (Clear(toPC') /\ ymMode = "get")
      BY <1>1 DEF NameAnswers
    <3>1. m.kind \in {"name", "garbled"}
      BY <1>5, <1>6, <1>11
    <3>2. CASE rcv = "start"
      <4>1. AnsweredTwice("ACK", "C")
        BY <1>1, <1>2, <3>1, <3>2, HearsDoes DEF Kept
      <4>2. Idle(toBoard) /\ Clear(toPC') /\ ymMode = "get"
        BY <1>3, <1>7, <3>2 DEF YmAnswers, StartAnswers
      <4> QED
        BY <1>9, <4>1, <4>2
    <3>3. CASE rcv = "data"
      <4>1. Answered("NAK") \/ Answered("ACK")
        BY <1>1, <1>2, <3>1, <3>3, HearsDoes
      <4>2. OldestC(toBoard, FALSE)
        BY <1>1, <1>3, <3>3 DEF YmAnswers, NameAnswers
      <4>3. OldestC(toBoard', FALSE)
        BY <1>8, <4>1, <4>2
      <4> QED
        BY <4>3, OldestWeaker
    <3> QED
      BY <2>4, <3>2, <3>3 DEF Trailing
  <2>8. FirstAnswers'
    <3> SUFFICES ASSUME rcv' = "data", ymPhase = "first"
                 PROVE  OnlyC(toBoard') /\ Without(toBoard', "C")
      BY <1>1 DEF FirstAnswers
    <3>1. m.kind \in {"name", "garbled"} /\ rcv = "data"
      BY <1>5, <1>6, <1>11, <2>4 DEF Trailing
    <3>2. Answered("NAK") \/ Answered("ACK")
      BY <1>1, <1>2, <3>1, HearsDoes
    <3>3. Without(toBoard, "C")
      BY <1>1, <1>3, <3>1 DEF YmAnswers, FirstAnswers
    <3>4. Without(toBoard', "C")
      BY <1>8, <3>2, <3>3
    <3> QED
      BY <3>4, OldestWeaker
  <2>9. DataAnswers'
    <3> SUFFICES ASSUME rcv' = "data", ymPhase = "data"
                 PROVE  OneOnTheWay' /\ (Without(toBoard', "ACK") \/ got' = ymBlock)
      BY <1>1 DEF DataAnswers
    <3>1. rcv = "data" /\ (m.kind = "garbled" \/ (m.kind = "data" /\ m.n = ymBlock % BlockMod))
      BY <1>5, <1>6, <1>11, <2>4 DEF Trailing
    <3>2. Idle(toBoard) /\ Clear(toPC') /\ ymMode = "get"
      BY <1>3, <1>7, <3>1 DEF YmAnswers, DataAnswers
    <3>3. Answered("NAK") \/ Answered("ACK")
      BY <1>1, <1>2, <3>1, HearsDoes
    <3>4. OneOnTheWay'
      BY <1>1, <1>8, <3>2, <3>3 DEF OneOnTheWay
    <3>5. CASE m.kind = "garbled"
      BY <1>1, <1>2, <1>8, <3>1, <3>2, <3>4, <3>5, HearsDoes
    <3>6. CASE m.kind = "data" /\ m.n = ymBlock % BlockMod
      <4>1. /\ got \in Int /\ ymBlock >= 1
            /\ got = ymBlock - 1 \/ got = ymBlock
        BY DEF YmInv, YmStored
      <4>2. got = ymBlock - 1 => ymBlock % BlockMod # got % BlockMod
        <5> DEFINE x == ymBlock - 1
        <5>1. x \in Nat /\ x + 1 = ymBlock /\ BlockMod \in Nat \ {0, 1, 2}
          BY <1>2, <4>1, YmAssumption
        <5>2. x % BlockMod # (x + 1) % BlockMod
          BY <5>1, NextBlockDiffers
        <5> QED
          BY <5>1, <5>2
      <4>3. got' = ymBlock
        <5>1. got' = ymBlock - 1 \/ got' = ymBlock
          BY <1>1, HeardIsStored DEF YmStored
        <5>2. got' = got + 1 \/ (got' = got /\ ymBlock % BlockMod = got % BlockMod)
          BY <1>1, <1>2, <3>1, <3>6, HearsDoes DEF Kept
        <5> QED
          BY <1>2, <4>1, <4>2, <5>1, <5>2
      <4> QED
        BY <3>4, <4>3
    <3> QED
      BY <3>1, <3>5, <3>6
  <2> QED
    BY <2>2, <2>5, <2>6, <2>7, <2>8, <2>9 DEF YmAnswers
<1> QED
  BY <1>10, <1>11

LEMMA RcvStepKeeps ==
    ASSUME YmInv, RcvStep
    PROVE  YmInv'
<1>1. YmShape' /\ YmStored' /\ YmPeer'
  BY HeardIsStored
<1>2. ymMode' = ymMode
  BY DEF RcvStep, sender
<1>3. ymMode # "end" => YmAnswers'
  BY HeardIsAnswered
<1> QED
  BY <1>1, <1>2, <1>3 DEF YmInv

\* The receiver asks again on an idle line, or gives up.
LEMMA RcvAsksKeeps ==
    ASSUME YmInv, RcvAsks
    PROVE  YmInv'
<1>1. /\ Clear(toPC) /\ Clear(toBoard) /\ rcv \notin {"closed", "gone"} /\ ymMode = "get"
      /\ ymPhase' = ymPhase /\ ymMode' = ymMode /\ ymTries' = ymTries /\ ymBlock' = ymBlock
      /\ ymResult' = ymResult /\ toPC' = toPC
  BY DEF RcvAsks, sender, Clear
<1>2. toBoard \in Seq(Bytes) /\ ymPhase \in Phases
  BY DEF YmInv, YmShape
<1>3. YmStored /\ YmPeer
  BY DEF YmInv
<1>4. \A b : Without(toBoard, b)
  BY <1>1, ClearFacts
<1>5. CASE rcv' = rcv /\ got' = got /\ (Answered("C") \/ Answered("NAK"))
  <2>1. PICK b \in {"C", "NAK"} : toBoard' = Append(toBoard, b)
    BY <1>5 DEF Answered
  <2>2. b \in Bytes /\ b # "ACK" /\ b # "CAN"
    BY DEF Bytes
  <2>3. toBoard' \in Seq(Bytes)
    BY <1>2, <2>1, <2>2, AppendElements
  <2>4. \A c : b # c => Without(toBoard', c)
    BY <1>2, <1>4, <2>1, <2>2, AppendFacts
  <2>5. Idle(toBoard)
    BY <1>1, ClearFacts
  <2>6. OnlyC(toBoard') /\ OldestC(toBoard', FALSE) /\ Sole(toBoard')
    BY <1>1, <1>2, <2>1, <2>2, <2>5, AppendFacts
  <2>7. OldestC(toBoard', TRUE)
    BY <2>6, OldestWeaker
  <2>8. Without(toBoard', "ACK") /\ Without(toBoard', "CAN")
    BY <2>2, <2>4
  <2>9. YmShape'
    BY <1>1, <2>3 DEF YmInv, YmShape
  <2>10. YmStored' /\ YmPeer'
    BY <1>1, <1>3, <1>5 DEF YmStored, YmPeer
  <2>11. OneOnTheWay'
    BY <1>1, <2>6 DEF OneOnTheWay
  <2>12. Within(toPC', SentIn(ymPhase', ymBlock') \cup {Garbled})
    BY <1>1, ClearFacts
  <2>13. YmAnswers'
    BY <1>1, <1>5, <2>6, <2>7, <2>8, <2>11, <2>12
       DEF YmAnswers, GoneIsSilent, ThereIsNoCancel, StartAnswers, NameAnswers, FirstAnswers, DataAnswers
  <2> QED
    BY <2>9, <2>10, <2>13 DEF YmInv
<1>6. CASE rcv' = "gone" /\ got' = got /\ AnsweredTwice("CAN", "CAN")
  <2>1. "CAN" \in Bytes /\ toBoard' = Append(Append(toBoard, "CAN"), "CAN")
    BY <1>6 DEF AnsweredTwice, Bytes
  <2>2. Append(toBoard, "CAN") \in Seq(Bytes)
    BY <1>2, <2>1, AppendElements
  <2>3. toBoard' \in Seq(Bytes)
    BY <2>1, <2>2, AppendElements
  <2>4. \A c : "CAN" # c => Without(Append(toBoard, "CAN"), c)
    BY <1>2, <1>4, <2>1, AppendFacts
  <2>5. \A c : "CAN" # c => Without(toBoard', c)
    BY <2>1, <2>2, <2>4, AppendFacts
  <2>6. Without(toBoard', "ACK") /\ Without(toBoard', "C")
    BY <2>5
  <2>7. YmShape'
    BY <1>1, <2>3 DEF YmInv, YmShape
  <2>8. YmStored' /\ YmPeer'
    BY <1>1, <1>2, <1>3, <1>6 DEF YmStored, YmPeer, Phases
  <2>9. YmAnswers'
    BY <1>6, <2>6
       DEF YmAnswers, GoneIsSilent, ThereIsNoCancel, StartAnswers, NameAnswers, FirstAnswers, DataAnswers
  <2> QED
    BY <2>7, <2>8, <2>9 DEF YmInv
<1> QED
  <2>1. CASE asked < RcvRetries
    <3>1. PICK b \in {"C", "NAK"} : Hear(rcv, got, <<b>>)
      BY <2>1 DEF RcvAsks
    <3>2. b \in Bytes
      BY DEF Bytes
    <3>3. rcv' = rcv /\ got' = got /\ Answered(b)
      BY <1>2, <3>1, <3>2, HearIs DEF Answered
    <3> QED
      BY <1>5, <3>3
  <2>2. CASE ~(asked < RcvRetries)
    <3>1. Hear("gone", got, <<"CAN", "CAN">>)
      BY <2>2 DEF RcvAsks
    <3> QED
      BY <1>2, <1>6, <3>1, HearIs DEF AnsweredTwice
  <2> QED
    BY <2>1, <2>2

\* The line changes what it carries, and nobody else takes a step.
LEMMA LineKeeps ==
    ASSUME YmInv, UNCHANGED <<sender, receiver>>,
           toBoard' \in Seq(Bytes), toPC' \in Seq(Messages),
           Within(toPC', SentIn(ymPhase, ymBlock) \cup {Garbled, Cancelled}),
           ymMode # "end" => YmAnswers'
    PROVE  YmInv'
<1>1. /\ ymPhase' = ymPhase /\ ymMode' = ymMode /\ ymTries' = ymTries /\ ymBlock' = ymBlock
      /\ ymResult' = ymResult /\ got' = got /\ rcv' = rcv
  BY DEF sender, receiver
<1>2. YmShape'
  BY <1>1 DEF YmInv, YmShape
<1>3. YmStored' /\ YmPeer'
  BY <1>1 DEF YmInv, YmStored, YmPeer
<1> QED
  BY <1>1, <1>2, <1>3 DEF YmInv

LEMMA MessageFaultKeeps ==
    ASSUME YmInv, ~Clear(toPC), UNCHANGED <<sender, receiver, toBoard>>,
           \/ toPC' = Tail(toPC)
           \/ toPC' = [toPC EXCEPT ![1] = Garbled]
    PROVE  YmInv'
<1> DEFINE B == SentIn(ymPhase, ymBlock) \cup {Garbled, Cancelled}
           D == SentIn(ymPhase, ymBlock) \cup {Garbled}
<1>1. /\ ymPhase' = ymPhase /\ ymMode' = ymMode /\ ymBlock' = ymBlock
      /\ got' = got /\ rcv' = rcv /\ toBoard' = toBoard
  BY DEF sender, receiver
<1>2. toBoard \in Seq(Bytes) /\ toPC \in Seq(Messages) /\ Within(toPC, B)
  BY DEF YmInv, YmShape
<1>3. Garbled \in Messages /\ Garbled \in B /\ Garbled \in D
  BY MessageTypes
<1> HIDE DEF B, D
<1>4. /\ toPC' \in Seq(Messages) /\ Within(toPC', B)
      /\ Within(toPC, D) => Within(toPC', D)
      /\ AtMostOne(toPC) => AtMostOne(toPC')
  <2>1. CASE toPC' = Tail(toPC)
    <3>1. /\ \A E : Within(toPC, E) => Within(Tail(toPC), E)
          /\ AtMostOne(toPC) => Clear(Tail(toPC))
      BY <1>2, TailFacts
    <3>2. Clear(toPC') => AtMostOne(toPC')
      BY ClearFacts
    <3>3. toPC' \in Seq(Messages)
      BY <1>2, <2>1, TailElements
    <3> QED
      BY <1>2, <2>1, <3>1, <3>2, <3>3
  <2>2. CASE toPC' = [toPC EXCEPT ![1] = Garbled]
    BY <1>2, <1>3, <2>2, ReplaceFacts
  <2> QED
    BY <2>1, <2>2
<1>5. OneOnTheWay => OneOnTheWay'
  BY <1>1, <1>4 DEF OneOnTheWay
<1>6. YmAnswers => YmAnswers'
  BY <1>1, <1>4, <1>5
     DEF YmAnswers, GoneIsSilent, ThereIsNoCancel, StartAnswers, NameAnswers, FirstAnswers, DataAnswers, D
<1>7. ymMode # "end" => YmAnswers'
  BY <1>6 DEF YmInv
<1> QED
  BY <1>1, <1>2, <1>4, <1>7, LineKeeps DEF B

\* What the line does to the answers leaves no new one.
LEMMA ByteFaultKeeps ==
    ASSUME YmInv, UNCHANGED <<sender, receiver, toPC>>,
           \/ ~Clear(toBoard) /\ toBoard' = Tail(toBoard)
           \/ ~Clear(toBoard) /\ Head(toBoard) # "ETX" /\ toBoard' = [toBoard EXCEPT ![1] = "noise"]
           \/ toBoard' = Append(toBoard, "ETX")
    PROVE  YmInv'
<1>1. /\ ymPhase' = ymPhase /\ ymMode' = ymMode /\ ymBlock' = ymBlock
      /\ got' = got /\ rcv' = rcv /\ toPC' = toPC
  BY DEF sender, receiver
<1>2. /\ toBoard \in Seq(Bytes) /\ toPC \in Seq(Messages)
      /\ Within(toPC, SentIn(ymPhase, ymBlock) \cup {Garbled, Cancelled})
  BY DEF YmInv, YmShape
<1>3. /\ toBoard' \in Seq(Bytes)
      /\ Sole(toBoard) => Sole(toBoard')
      /\ OnlyC(toBoard) => OnlyC(toBoard')
      /\ OldestC(toBoard, TRUE) => OldestC(toBoard', TRUE)
      /\ OldestC(toBoard, FALSE) => OldestC(toBoard', FALSE)
      /\ Without(toBoard, "C") => Without(toBoard', "C")
      /\ Without(toBoard, "ACK") => Without(toBoard', "ACK")
      /\ Without(toBoard, "CAN") => Without(toBoard', "CAN")
      /\ Idle(toBoard) => Idle(toBoard')
  <2>1. CASE ~Clear(toBoard) /\ toBoard' = Tail(toBoard)
    <3>1. toBoard' \in Seq(Bytes)
      BY <1>2, <2>1, TailElements
    <3>2. /\ Idle(toBoard) => Idle(toBoard')
          /\ Sole(toBoard) => Sole(toBoard')
          /\ OnlyC(toBoard) => OnlyC(toBoard')
          /\ \A b : Without(toBoard, b) => Without(toBoard', b)
      BY <1>2, <2>1, TailFacts
    <3>3. OldestC(toBoard, TRUE) => OldestC(toBoard', TRUE)
      BY <1>2, <2>1, TailOldest
    <3>4. OldestC(toBoard, FALSE) => OldestC(toBoard', FALSE)
      BY <1>2, <2>1, TailOldest
    <3> QED
      BY <3>1, <3>2, <3>3, <3>4
  <2>2. CASE ~Clear(toBoard) /\ Head(toBoard) # "ETX" /\ toBoard' = [toBoard EXCEPT ![1] = "noise"]
    <3>1. "noise" \in Bytes
      BY DEF Bytes
    <3> DEFINE x == "noise"
    <3>2. x # "C" /\ x # "ACK" /\ x # "CAN" /\ x \in Bytes /\ toBoard' = [toBoard EXCEPT ![1] = x]
      BY <2>2, <3>1
    <3> HIDE DEF x
    <3> DEFINE t == [toBoard EXCEPT ![1] = x]
    <3>3. x \in Bytes /\ ~Clear(toBoard) /\ Head(toBoard) # "ETX" /\ x # "C" /\ toBoard' = t
      BY <2>2, <3>2
    <3>4. /\ ~Idle(toBoard)
          /\ Sole(toBoard) => Sole(t)
          /\ OnlyC(toBoard) => OnlyC(t)
          /\ \A alone : OldestC(toBoard, alone) => OldestC(t, alone)
      BY <1>2, <3>3, ReplaceAnswer
    <3>5. t \in Seq(Bytes) /\ \A b : Without(toBoard, b) /\ x # b => Without(t, b)
      BY <1>2, <3>3, ReplaceFacts
    <3> HIDE DEF t
    <3> QED
      BY <3>2, <3>3, <3>4, <3>5
  <2>3. CASE toBoard' = Append(toBoard, "ETX")
    <3>1. "ETX" \in Bytes
      BY DEF Bytes
    <3>2. toBoard' \in Seq(Bytes)
      BY <1>2, <2>3, <3>1, AppendElements
    <3>3. /\ Idle(toBoard) => Idle(toBoard')
          /\ Sole(toBoard) => Sole(toBoard')
          /\ OnlyC(toBoard) => OnlyC(toBoard')
          /\ \A alone : OldestC(toBoard, alone) => OldestC(toBoard', alone)
          /\ \A b : Without(toBoard, b) /\ "ETX" # b => Without(toBoard', b)
      BY <1>2, <2>3, <3>1, AppendFacts
    <3> QED
      BY <3>2, <3>3
  <2> QED
    BY <2>1, <2>2, <2>3
<1>4. OneOnTheWay => OneOnTheWay'
  BY <1>1, <1>3 DEF OneOnTheWay
<1>5. YmAnswers => YmAnswers'
  BY <1>1, <1>3, <1>4
     DEF YmAnswers, GoneIsSilent, ThereIsNoCancel, StartAnswers, NameAnswers, FirstAnswers, DataAnswers
<1>6. ymMode # "end" => YmAnswers'
  BY <1>5 DEF YmInv
<1> QED
  BY <1>1, <1>2, <1>3, <1>6, LineKeeps

LEMMA LineFaultKeeps ==
    ASSUME YmInv, LineFault
    PROVE  YmInv'
<1>1. \/ /\ ~Clear(toPC) /\ UNCHANGED toBoard
         /\ toPC' = Tail(toPC) \/ toPC' = [toPC EXCEPT ![1] = Garbled]
      \/ /\ UNCHANGED toPC
         /\ \/ ~Clear(toBoard) /\ toBoard' = Tail(toBoard)
            \/ ~Clear(toBoard) /\ Head(toBoard) # "ETX" /\ toBoard' = [toBoard EXCEPT ![1] = "noise"]
            \/ toBoard' = Append(toBoard, "ETX")
  BY DEF LineFault, Clear, Garbled
<1>2. UNCHANGED <<sender, receiver>>
  BY DEF LineFault
<1> QED
  BY <1>1, <1>2, MessageFaultKeeps, ByteFaultKeeps

\* A stray byte on a silent line is no answer.
LEMMA StrayKeeps ==
    ASSUME YmInv, LineStray, Prompt
    PROVE  YmInv'
<1>1. /\ UNCHANGED <<sender, receiver>> /\ toPC' = toPC /\ Clear(toPC) /\ toBoard' = <<"noise">>
      /\ ymMode \in {"get", "can"}
  BY DEF LineStray, Silence, Clear
<1>2. ymPhase' = ymPhase /\ ymMode' = ymMode /\ ymBlock' = ymBlock /\ got' = got /\ rcv' = rcv
  BY <1>1 DEF sender, receiver
<1>3. /\ toPC \in Seq(Messages) /\ Within(toPC, SentIn(ymPhase, ymBlock) \cup {Garbled, Cancelled})
      /\ YmAnswers
  BY <1>1 DEF YmInv, YmShape
<1>4. toBoard' \in Seq(Bytes) /\ Len(toBoard') = 1 /\ toBoard'[1] = "noise"
  BY <1>1 DEF Bytes
<1>5. /\ Sole(toBoard') /\ OnlyC(toBoard') /\ OldestC(toBoard', FALSE) /\ OldestC(toBoard', TRUE)
      /\ Without(toBoard', "C") /\ Without(toBoard', "ACK") /\ Without(toBoard', "CAN")
  BY <1>4 DEF Sole, OnlyC, OldestC, Without
<1>6. OneOnTheWay'
  BY <1>1, <1>2, <1>5 DEF OneOnTheWay
<1>7. YmAnswers'
  BY <1>1, <1>2, <1>3, <1>5, <1>6
     DEF YmAnswers, GoneIsSilent, ThereIsNoCancel, StartAnswers, NameAnswers, FirstAnswers, DataAnswers
<1> QED
  BY <1>1, <1>3, <1>4, <1>7, LineKeeps

LEMMA YmInitHolds ==
    ASSUME YmInit
    PROVE  YmInv
<1>1. /\ ymPhase = "start" /\ ymMode = "get" /\ ymTries = 0 /\ ymBlock = 0 /\ ymResult = "none"
      /\ rcv = "start" /\ got = 0 /\ Clear(toPC) /\ Clear(toBoard)
  BY DEF YmInit, Clear
<1>2. toBoard \in Seq(Bytes) /\ toPC \in Seq(Messages)
  BY EmptySeq DEF YmInit
<1>3. /\ Idle(toBoard) /\ Sole(toBoard) /\ Without(toBoard, "ACK") /\ Without(toBoard, "CAN")
      /\ \A B : Within(toPC, B)
  BY <1>1, ClearFacts
<1>4. NBlocks \in Nat /\ Retries \in Nat
  BY YmAssumption
<1>5. YmShape
  BY <1>1, <1>2, <1>3, <1>4 DEF YmShape, Phases
<1>6. YmStored /\ YmPeer
  BY <1>1 DEF YmStored, YmPeer, Trailing
<1>7. YmAnswers
  BY <1>1, <1>3 DEF YmAnswers, GoneIsSilent, ThereIsNoCancel, StartAnswers, NameAnswers,
                    FirstAnswers, DataAnswers, OneOnTheWay
<1> QED
  BY <1>5, <1>6, <1>7 DEF YmInv

LEMMA YmNextKeeps ==
    ASSUME YmInv, [YmNext]_ymVars, Prompt
    PROVE  YmInv'
<1>1. CASE YmPut
  BY <1>1, PutKeeps
<1>2. CASE YmFails
  BY <1>2, FailsKeeps
<1>3. CASE YmGet
  BY <1>3, GetKeeps
<1>4. CASE YmSecondCan
  BY <1>4, SecondCanKeeps
<1>5. CASE YmTimeout
  BY <1>5, TimeoutKeeps
<1>6. CASE RcvStep
  BY <1>6, RcvStepKeeps
<1>7. CASE RcvAsks
  BY <1>7, RcvAsksKeeps
<1>8. CASE LineFault
  BY <1>8, LineFaultKeeps
<1>9. CASE LineStray
  BY <1>9, StrayKeeps
<1>10. CASE UNCHANGED ymVars
  <2>1. /\ UNCHANGED <<sender, receiver>> /\ toPC' = toPC /\ toBoard' = toBoard
        /\ ymPhase' = ymPhase /\ ymMode' = ymMode /\ ymBlock' = ymBlock /\ rcv' = rcv /\ got' = got
    BY <1>10 DEF ymVars, sender, receiver
  <2>2. YmAnswers => YmAnswers'
    BY <2>1 DEF YmAnswers, GoneIsSilent, ThereIsNoCancel, StartAnswers, NameAnswers,
                FirstAnswers, DataAnswers, OneOnTheWay
  <2>3. ymMode # "end" => YmAnswers'
    BY <2>2 DEF YmInv
  <2>4. /\ toBoard \in Seq(Bytes) /\ toPC \in Seq(Messages)
        /\ Within(toPC, SentIn(ymPhase, ymBlock) \cup {Garbled, Cancelled})
    BY DEF YmInv, YmShape
  <2> QED
    BY <2>1, <2>3, <2>4, LineKeeps
<1> QED
  BY <1>1, <1>2, <1>3, <1>4, <1>5, <1>6, <1>7, <1>8, <1>9, <1>10 DEF YmNext, YmSender

LEMMA YmInvIsDelivered ==
    ASSUME YmInv
    PROVE  OkIsDelivered
<1>1. NBlocks \in Nat /\ YmShape /\ YmStored
  BY YmAssumption DEF YmInv
<1>2. ymPhase \in DOMAIN Awaits
  BY <1>1, AwaitsIs DEF YmShape
<1>3. got \in 0 .. NBlocks
  BY <1>1 DEF YmShape, YmStored, Phases, Trailing
<1>4. YmTypeOK
  BY <1>1, <1>2, <1>3 DEF YmShape, YmTypeOK
<1>5. OkIsTransferred
  BY <1>1 DEF YmShape, YmStored, Trailing, OkIsTransferred
<1>6. ymPhase = "data" => got \in {ymBlock - 1, ymBlock}
  BY <1>1 DEF YmStored
<1> QED
  BY <1>4, <1>5, <1>6 DEF OkIsDelivered

\* While replies come within the sender's timeouts, YM_OK means that the
\* receiver stored every block of the file, whatever the line loses or
\* garbles: a block is sent only when the one before has been stored.
THEOREM OkIsAlwaysDelivered == Prompt => (YmSpec => []OkIsDelivered)
<1> SUFFICES ASSUME Prompt PROVE YmSpec => []OkIsDelivered
  OBVIOUS
<1>1. YmInit => YmInv
  BY YmInitHolds
<1>2. YmInv /\ [YmNext]_ymVars => YmInv'
  BY YmNextKeeps
<1>3. YmInv => OkIsDelivered
  BY YmInvIsDelivered
<1> QED
  BY <1>1, <1>2, <1>3, PTL DEF YmSpec
=============================================================================
