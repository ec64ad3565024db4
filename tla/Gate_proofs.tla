----------------------------- MODULE Gate_proofs -----------------------------
(***************************************************************************)
(* Proofs about Gate for any repositories, pipelines, locks, tables and    *)
(* numbers of faults: nothing that is to be asked about is passed over, an *)
(* answer other than ALLOW is not forgotten before the exit code, and what *)
(* is asked is asked under the mandate in force.                           *)
(***************************************************************************)
EXTENDS Gate, WellFoundedInduction, TLAPS

\* What an ALLOW of the engine is worth to a pipeline: the destination is on one
\* of the two lists, under a mandate on that of the qualified providers.
LEMMA AllowedIsListed ==
    ASSUME NEW l, NEW mandate \in BOOLEAN, NEW dest,
           decide_transfer(l, mandate, dest).outcome = "ALLOW"
    PROVE  /\ dest \in QualifiedPairs \cup AdequateNames
           /\ mandate => dest \in QualifiedPairs
  BY DEF decide_transfer, requires_sovereign_hosting, is_qualified, is_adequate

Destination(scan, x) == resource_by_name(scan, x.name).dest

\* A request whose entity will be asked about is still to process, or has its answer.
Accounted(r) ==
    \A i \in DOMAIN r.scan :
        /\ r.scan[i].valid
        /\ OnCloud(resource_by_name(r.scan, r.scan[i].name))
        => i \in r.todo \/ \E a : <<r.scan[i], a>> \in r.answers

Fields == {"at", "scan", "todo", "blocked", "exit", "answers"}

\* What holds of a run that has started; mandate and exempt stand for the
\* company's mandate and the run having been without one.
RunOK(r, mandate, exempt) ==
    /\ DOMAIN r = Fields
    /\ r.at \in {"ingest", "transfer", "done"}
    /\ r.scan \in Seq(Resource)
    /\ Accounted(r)
    /\ \A x, a : <<x, a>> \in r.answers /\ a # "ALLOW" => x \in r.blocked
    /\ \A x : <<x, "ALLOW">> \in r.answers =>
          Destination(r.scan, x) \in QualifiedPairs \cup AdequateNames
    /\ r.at = "done" /\ r.exit = 0 => r.blocked = {} /\ r.todo = {}
    /\ ~exempt =>
         /\ r.at # "done" => mandate
         /\ \A x : <<x, "ALLOW">> \in r.answers =>
               Destination(r.scan, x) \in QualifiedPairs

GateInv ==
    /\ mandated \in BOOLEAN
    /\ DOMAIN run = Pipelines
    /\ \A p \in Pipelines :
          run[p] = NotStarted \/ RunOK(run[p], mandated, p \in unbound)

\* A run ends up in r; the others, the company and the marks stay.
LEMMA RunMoves ==
    ASSUME GateInv, NEW p \in Pipelines, NEW r,
           run' = [run EXCEPT ![p] = r], mandated' = mandated, unbound' = unbound,
           RunOK(r, mandated, p \in unbound)
    PROVE  GateInv'
  BY DEF GateInv

\* An answer: what is not an ALLOW blocks, and an ALLOW of a run that has
\* always been under a mandate is for a qualified provider.
LEMMA ConcludeKeeps ==
    ASSUME GateInv, NEW p \in Pipelines, NEW answer, Conclude(p, answer),
           run[p] # NotStarted, run[p].at # "done",
           mandated' = mandated, unbound' = unbound,
           answer = "ALLOW" => looked_up(p).dest \in QualifiedPairs \cup AdequateNames,
           p \notin unbound /\ answer = "ALLOW" => looked_up(p).dest \in QualifiedPairs
    PROVE  GateInv'
<1>1. PICK r : r = run[p]
  OBVIOUS
<1>2. PICK first : first = Min(r.todo)
  OBVIOUS
<1>3. RunOK(r, mandated, p \in unbound) /\ r.at # "done"
  BY <1>1 DEF GateInv
<1>. DEFINE c == r.scan[first]
            blocked == r.blocked \cup (IF answer = "ALLOW" THEN {} ELSE {c})
            answers == r.answers \cup {<<c, answer>>}
            next == [r EXCEPT !.at = "ingest", !.todo = r.todo \ {first},
                              !.blocked = blocked, !.answers = answers]
<1>4. c = current(p)
  BY <1>1, <1>2 DEF current
<1>5. run' = [run EXCEPT ![p] = next]
  BY <1>1, <1>2, <1>4 DEF Conclude, GateInv
<1>6. /\ DOMAIN next = Fields /\ next.at = "ingest" /\ next.scan = r.scan
      /\ next.todo = r.todo \ {first} /\ next.blocked = blocked /\ next.answers = answers
  BY <1>3 DEF RunOK, Fields
<1>7. \A x, a : <<x, a>> \in answers /\ a # "ALLOW" => x \in blocked
  BY <1>3 DEF RunOK
<1>8. looked_up(p).dest = Destination(r.scan, c)
  BY <1>1, <1>4 DEF looked_up, Destination
<1>9. \A x : <<x, "ALLOW">> \in answers =>
         Destination(r.scan, x) \in QualifiedPairs \cup AdequateNames
  BY <1>3, <1>8 DEF RunOK
<1>10. ASSUME p \notin unbound
       PROVE  /\ mandated
              /\ \A x : <<x, "ALLOW">> \in answers => Destination(r.scan, x) \in QualifiedPairs
  BY <1>3, <1>8, <1>10 DEF RunOK
<1>11. Accounted(next)
  <2>1. Accounted(r)
    BY <1>3 DEF RunOK
  <2>. SUFFICES ASSUME NEW i \in DOMAIN r.scan, r.scan[i].valid,
                       OnCloud(resource_by_name(r.scan, r.scan[i].name))
                PROVE  i \in r.todo \ {first} \/ \E a : <<r.scan[i], a>> \in answers
    <3>. HIDE DEF next, answers
    <3>. QED
      BY <1>6 DEF Accounted
  <2>2. CASE i = first
    BY <2>2
  <2>3. CASE i # first
    BY <2>1, <2>3 DEF Accounted
  <2>. QED
    BY <2>2, <2>3
<1>12. RunOK(next, mandated, p \in unbound)
  <2>1. r.scan \in Seq(Resource)
    BY <1>3 DEF RunOK
  <2>. HIDE DEF next, answers, blocked
  <2>. QED
    BY <2>1, <1>6, <1>7, <1>9, <1>10, <1>11 DEF RunOK
<1>13. PICK s : s = next
  OBVIOUS
<1>. QED
  BY <1>5, <1>12, <1>13, RunMoves

LEMMA StartKeeps ==
    ASSUME GateInv, NEW p \in Pipelines, Start(p)
    PROVE  GateInv'
<1>1. PICK scan \in Scans, configured \in BOOLEAN :
        run' = [run EXCEPT ![p] =
                  [at     |-> IF configured /\ scan # <<>> THEN "ingest" ELSE "done",
                   scan   |-> scan, todo |-> assemble(scan),
                   blocked |-> {}, answers |-> {},
                   exit   |-> IF configured THEN 0 ELSE 1]]
  BY DEF Start
<1>2. PICK todo : todo = assemble(scan)
  OBVIOUS
<1>3. /\ mandated' = mandated
      /\ unbound' = IF mandated THEN unbound ELSE unbound \cup {p}
  BY DEF Start
<1>. DEFINE r == [at     |-> IF configured /\ scan # <<>> THEN "ingest" ELSE "done",
                  scan   |-> scan, todo |-> todo, blocked |-> {}, answers |-> {},
                  exit   |-> IF configured THEN 0 ELSE 1]
<1>4. RunOK(r, mandated, p \in unbound')
  <2>1. r.at \in {"ingest", "transfer", "done"} /\ r.blocked = {} /\ r.answers = {}
    OBVIOUS
  <2>2. DOMAIN r = Fields
    BY DEF Fields
  <2>3. p \notin unbound' => mandated
    BY <1>3
  <2>4. r.scan = scan /\ scan \in Seq(Resource)
    BY GateAssumption
  <2>5. Accounted(r)
    BY <1>2 DEF Accounted, assemble
  <2>6. r.at = "done" /\ r.exit = 0 => r.todo = {}
    BY <1>2 DEF assemble
  <2>. HIDE DEF r
  <2>. QED
    BY <2>1, <2>2, <2>3, <2>4, <2>5, <2>6 DEF RunOK
<1>5. run' = [run EXCEPT ![p] = r]
  BY <1>1, <1>2
<1>. HIDE DEF r
<1>6. \A q \in Pipelines \ {p} : run'[q] = run[q] /\ (q \in unbound' <=> q \in unbound)
  BY <1>3, <1>5 DEF GateInv
<1>7. DOMAIN run' = Pipelines /\ run'[p] = r
  BY <1>5 DEF GateInv
<1>. QED
  BY <1>3, <1>4, <1>6, <1>7 DEF GateInv

\* Steps of a run that was not asked about anything: it goes on, or ends.
LEMMA IngestKeeps ==
    ASSUME GateInv, NEW p \in Pipelines, Ingest(p)
    PROVE  GateInv'
<1>1. PICK r : r = run[p] /\ r.at = "ingest" /\ RunOK(r, mandated, p \in unbound)
  BY DEF Ingest, GateInv, NotStarted
<1>2. PICK first : first = Min(r.todo)
  OBVIOUS
<1>3. PICK next :
        /\ run' = [run EXCEPT ![p] = next]
        /\ \/ next = [r EXCEPT !.at = "transfer"]
           \/ /\ next = [r EXCEPT !.todo = r.todo \ {first}]
              /\ ~OnCloud(looked_up(p))
  BY <1>1, <1>2 DEF Ingest, GateInv, OnCloud
<1>4. /\ DOMAIN next = Fields /\ next.at \in {"ingest", "transfer"}
      /\ next.scan = r.scan /\ next.blocked = r.blocked /\ next.answers = r.answers
  BY <1>1, <1>3 DEF RunOK, Fields
<1>5. Accounted(next)
  <2>1. Accounted(r)
    BY <1>1 DEF RunOK
  <2>2. CASE next.todo = r.todo
    BY <1>4, <2>1, <2>2 DEF Accounted
  <2>3. CASE next.todo = r.todo \ {first} /\ ~OnCloud(looked_up(p))
    <3>1. looked_up(p) = resource_by_name(r.scan, r.scan[first].name)
      BY <1>1, <1>2 DEF looked_up, current
    <3>. QED
      BY <1>4, <2>1, <2>3, <3>1 DEF Accounted
  <2>. QED
    BY <1>1, <1>3, <2>2, <2>3 DEF RunOK, Fields
<1>6. RunOK(next, mandated, p \in unbound)
  BY <1>1, <1>4, <1>5 DEF RunOK
<1>. QED
  BY <1>3, <1>6, RunMoves DEF Ingest

LEMMA FinishKeeps ==
    ASSUME GateInv, NEW p \in Pipelines, Finish(p)
    PROVE  GateInv'
<1>1. PICK r : r = run[p] /\ r.at = "ingest" /\ RunOK(r, mandated, p \in unbound)
  BY DEF Finish, GateInv, NotStarted
<1>. DEFINE next == [r EXCEPT !.at = "done", !.exit = IF r.blocked = {} THEN 0 ELSE 1]
<1>2. run' = [run EXCEPT ![p] = next]
  BY <1>1 DEF Finish, GateInv
<1>3. /\ DOMAIN next = Fields /\ next.at = "done"
      /\ next.exit = (IF r.blocked = {} THEN 0 ELSE 1) /\ next.todo = {}
      /\ next.scan = r.scan /\ next.blocked = r.blocked /\ next.answers = r.answers
  BY <1>1 DEF RunOK, Fields, Finish
<1>. HIDE DEF next
<1>4. RunOK(next, mandated, p \in unbound)
  <2>1. r.todo = {}
    BY <1>1 DEF Finish
  <2>2. Accounted(next)
    BY <1>1, <1>3, <2>1 DEF RunOK, Accounted
  <2>. QED
    BY <1>1, <1>3, <2>2 DEF RunOK
<1>5. PICK s : s = next
  OBVIOUS
<1>. QED
  BY <1>2, <1>4, <1>5, RunMoves DEF Finish

\* The engine lets a mandated company's data go to qualified providers only.
LEMMA TransferKeeps ==
    ASSUME GateInv, NEW p \in Pipelines, Transfer(p)
    PROVE  GateInv'
<1>1. /\ run[p] # NotStarted /\ run[p].at # "done"
      /\ RunOK(run[p], mandated, p \in unbound) /\ mandated \in BOOLEAN
  BY DEF Transfer, GateInv, NotStarted
<1>2. PICK answer :
        /\ answer = decide_transfer(lock[KeyOf(current(p))], mandated,
                                    looked_up(p).dest).outcome
        /\ Conclude(p, answer)
  BY DEF Transfer
<1>3. ASSUME answer = "ALLOW"
      PROVE  /\ looked_up(p).dest \in QualifiedPairs \cup AdequateNames
             /\ p \notin unbound => looked_up(p).dest \in QualifiedPairs
  <2>1. p \notin unbound => mandated
    BY <1>1 DEF RunOK
  <2>. QED
    BY <1>1, <1>2, <1>3, <2>1, AllowedIsListed
<1>. QED
  BY <1>1, <1>2, <1>3, ConcludeKeeps DEF Transfer

LEMMA FaultsKeep ==
    ASSUME GateInv, NEW p \in Pipelines, IngestFails(p) \/ TransferFails(p)
    PROVE  GateInv'
<1>1. /\ run[p] # NotStarted /\ run[p].at # "done" /\ Conclude(p, "error")
      /\ mandated' = mandated /\ unbound' = unbound
  BY DEF IngestFails, TransferFails, NotStarted
<1>. QED
  BY <1>1, ConcludeKeeps

\* The company is edited: runs at work without a mandate are marked.
LEMMA UpdateKeeps ==
    ASSUME GateInv, UpdateCompany
    PROVE  GateInv'
<1>1. /\ mandated' \in BOOLEAN /\ run' = run
      /\ unbound' = IF mandated' THEN unbound
                    ELSE unbound \cup {p \in Pipelines : run[p].at \in {"ingest", "transfer"}}
  BY GateAssumption DEF UpdateCompany
<1>2. ASSUME NEW p \in Pipelines, RunOK(run[p], mandated, p \in unbound)
      PROVE  RunOK(run[p], mandated', p \in unbound')
  <2>1. p \in unbound => p \in unbound'
    BY <1>1
  <2>2. run[p].at \in {"ingest", "transfer"} /\ p \notin unbound' => mandated'
    BY <1>1
  <2>. QED
    BY <1>2, <2>1, <2>2 DEF RunOK
<1>. QED
  BY <1>1, <1>2 DEF GateInv

LEMMA GateInvariant == Spec => []GateInv
<1>1. Init => GateInv
  BY DEF Init, GateInv
<1>2. GateInv /\ [Next]_vars => GateInv'
  <2>. SUFFICES ASSUME GateInv, [Next]_vars PROVE GateInv'
    OBVIOUS
  <2>1. CASE \E p \in Pipelines : Start(p) \/ GateStep(p)
    BY <2>1, StartKeeps, IngestKeeps, FaultsKeep, TransferKeeps, FinishKeeps DEF GateStep
  <2>2. CASE \E k \in Keys : Declare(k)
    BY <2>2 DEF Declare, GateInv
  <2>3. CASE UpdateCompany
    BY <2>3, UpdateKeeps
  <2>4. CASE UNCHANGED vars
    BY <2>4 DEF vars, GateInv
  <2>. QED
    BY <2>1, <2>2, <2>3, <2>4 DEF Next
<1>. QED
  BY <1>1, <1>2, PTL DEF Spec

\* The gate fails closed (cli.py:35-36): however many calls fail or time out,
\* and whatever they did, a run with one of them does not end with exit code 0.
THEOREM ErrorsAlwaysBlock == Spec => []ErrorsBlock
<1>1. GateInv => ErrorsBlock
  <2>. SUFFICES ASSUME GateInv, NEW p \in Pipelines, Passed(p), NEW r,
                       <<r, "error">> \in run[p].answers
                PROVE  FALSE
    BY DEF ErrorsBlock
  <2>1. RunOK(run[p], mandated, p \in unbound)
    BY DEF GateInv, Passed, NotStarted
  <2>. QED
    BY <2>1 DEF RunOK, Passed
<1>. QED
  BY <1>1, GateInvariant, PTL

\* A run that was under a mandate from its start to its end (engine.py:49-55) has
\* let nothing go but to qualified providers, whatever other clients declared.
THEOREM TheMandateBinds == Spec => []MandateBindsTheGate
<1>1. GateInv => MandateBindsTheGate
  <2>. SUFFICES ASSUME GateInv, NEW p \in Pipelines, Passed(p), p \notin unbound, NEW r,
                       <<r, "ALLOW">> \in run[p].answers
                PROVE  resource_by_name(run[p].scan, r.name).dest \in QualifiedPairs
    BY DEF MandateBindsTheGate
  <2>1. RunOK(run[p], mandated, p \in unbound)
    BY DEF GateInv, Passed, NotStarted
  <2>. QED
    BY <2>1 DEF RunOK, Destination
<1>. QED
  BY <1>1, GateInvariant, PTL

\* A name that no two resources of a scan share is looked up rightly.
LEMMA LookedUpRightly ==
    ASSUME NEW scan \in Seq(Resource), NEW i \in DOMAIN scan,
           \A j, k \in DOMAIN scan : scan[j].name = scan[k].name => j = k
    PROVE  resource_by_name(scan, scan[i].name) = scan[i]
<1>. DEFINE Named(k) == /\ scan[k].name = scan[i].name
                        /\ \A j \in DOMAIN scan : scan[j].name = scan[i].name => j <= k
<1>1. i \in Nat
  OBVIOUS
<1>2. Named(i) /\ \A k \in DOMAIN scan : Named(k) => k = i
  BY <1>1
<1>3. (CHOOSE k \in DOMAIN scan : Named(k)) = i
  BY <1>2
<1>. QED
  BY <1>3 DEF resource_by_name

\* Exit code 0 is an ALLOW for every cloud resource of a well named scan, and for
\* its own destination (cli.py:34-36): no request is left out of the loop, and none
\* that was denied, sent to review or failed is out of the exit code.
THEOREM PassesAreSound == Spec => []PassIsSound
<1>1. GateInv => PassIsSound
  <2>. SUFFICES ASSUME GateInv, NEW p \in Pipelines, Passed(p), WellNamed(p),
                       NEW r \in Scanned(p), OnCloud(r)
                PROVE  /\ <<r, "ALLOW">> \in run[p].answers
                       /\ r.dest \in QualifiedPairs \cup AdequateNames
    BY DEF PassIsSound
  <2>1. RunOK(run[p], mandated, p \in unbound)
    BY DEF GateInv, Passed, NotStarted
  <2>2. PICK i \in DOMAIN run[p].scan : r = run[p].scan[i]
    BY DEF Scanned, ToSet
  <2>3. resource_by_name(run[p].scan, r.name) = r
    BY <2>1, <2>2, LookedUpRightly DEF RunOK, WellNamed
  <2>4. PICK a : <<r, a>> \in run[p].answers
    BY <2>1, <2>2, <2>3 DEF RunOK, Accounted, Passed, WellNamed
  <2>5. a = "ALLOW"
    BY <2>1, <2>4 DEF RunOK, Passed
  <2>. QED
    BY <2>1, <2>3, <2>4, <2>5 DEF RunOK, Destination
<1>. QED
  BY <1>1, GateInvariant, PTL

-----------------------------------------------------------------------------
(***************************************************************************)
(* Types.  A run that waits for a decision has a request to ask about.     *)
(***************************************************************************)
\* A set of positions that is not empty has a first one.
LEMMA MinIsLeast ==
    ASSUME NEW S \in SUBSET Nat, S # {}
    PROVE  Min(S) \in S /\ \A n \in S : Min(S) <= n
<1>1. PICK R : IsWellFoundedOn(R, Nat) /\ R = {ss \in Nat \X Nat : ss[1] < ss[2]}
  BY NatLessThanWellFounded, Zenon DEF OpToRel
<1>2. PICK m \in S : \A n \in S : <<n, m>> \notin R
  BY <1>1, WFMin
<1>3. ASSUME NEW n \in S PROVE m <= n
  <2>1. m \in Nat /\ n \in Nat
    OBVIOUS
  <2>2. n < m => <<n, m>> \in {ss \in Nat \X Nat : ss[1] < ss[2]}
    BY <2>1
  <2>3. ~(n < m)
    BY <1>1, <1>2, <2>2
  <2>. QED
    BY <2>1, <2>3
<1>. QED
  BY <1>3 DEF Min

Outcomes == {"ALLOW", "DENY", "REVIEW", "error"}

RunType(r) ==
    /\ r \in Run
    /\ r.todo \subseteq DOMAIN r.scan
    /\ r.at = "transfer" => r.todo # {}

RunInv ==
    /\ lock \in [Keys -> ResidencyLock \cup {"absent"}]
    /\ mandated \in BOOLEAN
    /\ run \in [Pipelines -> {NotStarted} \cup Run]
    /\ \A p \in Pipelines : run[p] = NotStarted \/ RunType(run[p])
    /\ faults \in 0..MaxFaults
    /\ declared \subseteq Keys
    /\ unbound \subseteq Pipelines

\* The request at hand is one of the scan.
LEMMA CurrentFacts ==
    ASSUME NEW p, RunType(run[p]), run[p].todo # {}
    PROVE  /\ Min(run[p].todo) \in run[p].todo
           /\ current(p) \in Resource /\ KeyOf(current(p)) \in Keys
<1>1. run[p].scan \in Seq(Resource) /\ run[p].todo \in SUBSET Nat /\ run[p].todo \subseteq DOMAIN run[p].scan
  BY DEF RunType, Run
<1>2. Min(run[p].todo) \in run[p].todo
  BY <1>1, MinIsLeast
<1>3. current(p) \in Resource
  BY <1>1, <1>2 DEF current
<1>4. KeyOf(current(p)) \in Keys
  BY <1>3 DEF KeyOf, Keys, Resource
<1>. QED
  BY <1>2, <1>3, <1>4

LEMMA RunChanges ==
    ASSUME RunInv, NEW p \in Pipelines, NEW r, run' = [run EXCEPT ![p] = r], RunType(r)
    PROVE  run' \in [Pipelines -> {NotStarted} \cup Run] /\ \A q \in Pipelines : run'[q] = NotStarted \/ RunType(run'[q])
<1>1. r \in {NotStarted} \cup Run /\ run \in [Pipelines -> {NotStarted} \cup Run]
  BY DEF RunType, RunInv
<1>2. run' \in [Pipelines -> {NotStarted} \cup Run]
  <2>. DEFINE T == {NotStarted} \cup Run
  <2>1. r \in T /\ run \in [Pipelines -> T]
    BY <1>1
  <2>. HIDE DEF T
  <2>2. run' \in [Pipelines -> T]
    BY <2>1
  <2>. QED
    BY <2>2 DEF T
<1>. QED
  BY <1>2 DEF RunInv

LEMMA ConcludeIsTyped ==
    ASSUME RunInv, NEW p \in Pipelines, NEW answer \in Outcomes, Conclude(p, answer),
           RunType(run[p]), run[p].todo # {}
    PROVE  run' \in [Pipelines -> {NotStarted} \cup Run] /\ \A q \in Pipelines : run'[q] = NotStarted \/ RunType(run'[q])
<1>1. PICK r : r = run[p]
  OBVIOUS
<1>2. PICK c \in Resource : c = current(p)
  BY CurrentFacts
<1>. DEFINE next == [r EXCEPT !.at = "ingest", !.todo = r.todo \ {Min(r.todo)},
                              !.blocked = r.blocked \cup (IF answer = "ALLOW" THEN {} ELSE {c}),
                              !.answers = r.answers \cup {<<c, answer>>}]
<1>3. run' = [run EXCEPT ![p] = next]
  BY <1>1, <1>2 DEF Conclude, RunInv
<1>4. RunType(r)
  BY <1>1
<1>5. next \in Run
  <2>1. PICK todo \in SUBSET Nat : todo = r.todo \ {Min(r.todo)}
    BY <1>4 DEF RunType, Run
  <2>2. PICK blocked \in SUBSET Resource :
          blocked = r.blocked \cup (IF answer = "ALLOW" THEN {} ELSE {c})
    BY <1>4 DEF RunType, Run
  <2>3. PICK answers \in SUBSET (Resource \X Outcomes) : answers = r.answers \cup {<<c, answer>>}
    <3>1. <<c, answer>> \in Resource \X Outcomes /\ r.answers \subseteq Resource \X Outcomes
      BY <1>4 DEF RunType, Run, Outcomes
    <3>. QED
      BY <3>1, Zenon
  <2>4. next = [r EXCEPT !.at = "ingest", !.todo = todo, !.blocked = blocked, !.answers = answers]
    BY <2>1, <2>2, <2>3
  <2>. HIDE DEF next
  <2>. QED
    BY <1>4, <2>4 DEF RunType, Run, Outcomes
<1>6. RunType(next)
  <2>1. next.todo = r.todo \ {Min(r.todo)} /\ next.scan = r.scan /\ next.at = "ingest"
    BY <1>4 DEF RunType, Run
  <2>. HIDE DEF next
  <2>. QED
    BY <1>4, <1>5, <2>1 DEF RunType
<1>7. PICK s : s = next
  OBVIOUS
<1>. QED
  BY <1>3, <1>6, <1>7, RunChanges

LEMMA StartIsTyped ==
    ASSUME RunInv, NEW p \in Pipelines, Start(p)
    PROVE  RunInv'
<1>1. PICK scan \in Scans, configured \in BOOLEAN :
        run' = [run EXCEPT ![p] =
                  [at     |-> IF configured /\ scan # <<>> THEN "ingest" ELSE "done",
                   scan   |-> scan, todo |-> assemble(scan),
                   blocked |-> {}, answers |-> {},
                   exit   |-> IF configured THEN 0 ELSE 1]]
  BY DEF Start
<1>2. PICK r : r = [at     |-> IF configured /\ scan # <<>> THEN "ingest" ELSE "done",
                    scan   |-> scan, todo |-> assemble(scan), blocked |-> {}, answers |-> {},
                    exit   |-> IF configured THEN 0 ELSE 1]
  OBVIOUS
<1>3. scan \in Seq(Resource)
  BY GateAssumption
<1>4. assemble(scan) \in SUBSET Nat /\ assemble(scan) \subseteq DOMAIN scan
  BY <1>3 DEF assemble
<1>5. r \in Run /\ r.todo = assemble(scan) /\ r.scan = scan /\ r.at # "transfer"
  BY <1>2, <1>3, <1>4 DEF Run
<1>6. RunType(r)
  BY <1>4, <1>5 DEF RunType
<1>7. run' \in [Pipelines -> {NotStarted} \cup Run] /\ \A q \in Pipelines : run'[q] = NotStarted \/ RunType(run'[q])
  BY <1>1, <1>2, <1>6, RunChanges
<1>8. UNCHANGED <<lock, mandated, faults, declared>> /\ unbound' \subseteq Pipelines
  BY DEF Start, RunInv
<1>. QED
  BY <1>7, <1>8 DEF RunInv

LEMMA StepIsTyped ==
    ASSUME RunInv, NEW p \in Pipelines, GateStep(p)
    PROVE  RunInv'
<1>1. RunType(run[p])
  BY DEF GateStep, Ingest, IngestFails, Transfer, TransferFails, Finish, RunInv, NotStarted
<1>2. PICK r : r = run[p]
  OBVIOUS
<1>3. CASE Ingest(p)
  <2>1. run[p].todo # {} /\ KeyOf(current(p)) \in Keys
    BY <1>1, <1>3, CurrentFacts DEF Ingest
  <2>2. lock' \in [Keys -> ResidencyLock \cup {"absent"}]
    BY <1>3, <2>1 DEF Ingest, RunInv, ResidencyLock
  <2>3. PICK next :
          /\ run' = [run EXCEPT ![p] = next]
          /\ \/ next = [r EXCEPT !.at = "transfer"]
             \/ next = [r EXCEPT !.todo = r.todo \ {Min(r.todo)}]
    BY <1>2, <1>3 DEF Ingest, RunInv
  <2>4. next \in Run /\ next.scan = r.scan /\ next.todo \subseteq r.todo
        /\ (next.at = "transfer" => next.todo = r.todo)
    BY <1>1, <1>2, <1>3, <2>3 DEF RunType, Run, Ingest
  <2>5. RunType(next)
    BY <1>1, <1>2, <2>1, <2>4 DEF RunType
  <2>6. run' \in [Pipelines -> {NotStarted} \cup Run] /\ \A q \in Pipelines : run'[q] = NotStarted \/ RunType(run'[q])
    BY <2>3, <2>5, RunChanges
  <2>. QED
    BY <1>3, <2>2, <2>6 DEF Ingest, RunInv
<1>4. CASE IngestFails(p)
  <2>1. run[p].todo # {} /\ KeyOf(current(p)) \in Keys
    BY <1>1, <1>4, CurrentFacts DEF IngestFails
  <2>2. lock' \in [Keys -> ResidencyLock \cup {"absent"}]
    BY <1>4, <2>1 DEF IngestFails, RunInv, ResidencyLock
  <2>3. faults' \in 0..MaxFaults
    BY <1>4, GateAssumption DEF IngestFails, RunInv
  <2>4. run' \in [Pipelines -> {NotStarted} \cup Run] /\ \A q \in Pipelines : run'[q] = NotStarted \/ RunType(run'[q])
    BY <1>1, <1>4, <2>1, ConcludeIsTyped DEF IngestFails, Outcomes
  <2>. QED
    BY <1>4, <2>2, <2>3, <2>4 DEF IngestFails, RunInv
<1>5. CASE Transfer(p)
  <2>1. \A l, d : decide_transfer(l, mandated, d).outcome \in Outcomes
    BY DEF decide_transfer, requires_sovereign_hosting, is_qualified, is_adequate, Outcomes, RunInv
  <2>2. PICK answer \in Outcomes : Conclude(p, answer)
    BY <1>5, <2>1 DEF Transfer
  <2>3. run[p].todo # {}
    BY <1>1, <1>5 DEF Transfer, RunType
  <2>4. run' \in [Pipelines -> {NotStarted} \cup Run] /\ \A q \in Pipelines : run'[q] = NotStarted \/ RunType(run'[q])
    BY <1>1, <2>2, <2>3, ConcludeIsTyped
  <2>. QED
    BY <1>5, <2>4 DEF Transfer, RunInv
<1>6. CASE TransferFails(p)
  <2>1. run[p].todo # {}
    BY <1>1, <1>6 DEF TransferFails, RunType
  <2>2. faults' \in 0..MaxFaults
    BY <1>6, GateAssumption DEF TransferFails, RunInv
  <2>3. run' \in [Pipelines -> {NotStarted} \cup Run] /\ \A q \in Pipelines : run'[q] = NotStarted \/ RunType(run'[q])
    BY <1>1, <1>6, <2>1, ConcludeIsTyped DEF TransferFails, Outcomes
  <2>. QED
    BY <1>6, <2>2, <2>3 DEF TransferFails, RunInv
<1>7. CASE Finish(p)
  <2>1. PICK next :
          /\ run' = [run EXCEPT ![p] = next]
          /\ next = [r EXCEPT !.at = "done", !.exit = IF r.blocked = {} THEN 0 ELSE 1]
    BY <1>2, <1>7 DEF Finish, RunInv
  <2>2. next \in Run /\ next.scan = r.scan /\ next.todo = r.todo /\ next.at = "done"
    BY <1>1, <1>2, <2>1 DEF RunType, Run
  <2>3. RunType(next)
    BY <1>1, <1>2, <2>2 DEF RunType
  <2>4. run' \in [Pipelines -> {NotStarted} \cup Run] /\ \A q \in Pipelines : run'[q] = NotStarted \/ RunType(run'[q])
    BY <2>1, <2>3, RunChanges
  <2>. QED
    BY <1>7, <2>4 DEF Finish, RunInv
<1>. QED
  BY <1>3, <1>4, <1>5, <1>6, <1>7 DEF GateStep

\* A run that asks for a decision has a request of its scan at hand, whatever
\* fails on the way, and answers are of what was scanned.
THEOREM GateTypeCorrect == Spec => []TypeOK
<1>1. Init => RunInv
  <2>. SUFFICES ASSUME Init PROVE RunInv
    OBVIOUS
  <2>1. lock \in [Keys -> ResidencyLock \cup {"absent"}]
    BY DEF Init
  <2>2. faults \in 0..MaxFaults
    BY GateAssumption DEF Init
  <2>. QED
    BY <2>1, <2>2 DEF Init, RunInv
<1>2. RunInv /\ [Next]_vars => RunInv'
  <2>. SUFFICES ASSUME RunInv, [Next]_vars PROVE RunInv'
    OBVIOUS
  <2>1. CASE \E p \in Pipelines : Start(p) \/ GateStep(p)
    BY <2>1, StartIsTyped, StepIsTyped
  <2>2. CASE \E k \in Keys : Declare(k)
    BY <2>2, GateAssumption DEF Declare, RunInv
  <2>3. CASE UpdateCompany
    BY <2>3, GateAssumption DEF UpdateCompany, RunInv
  <2>4. CASE UNCHANGED vars
    BY <2>4 DEF vars, RunInv
  <2>. QED
    BY <2>1, <2>2, <2>3, <2>4 DEF Next
<1>3. RunInv => TypeOK
  <2>. SUFFICES ASSUME RunInv PROVE TypeOK
    OBVIOUS
  <2>. QED
    BY DEF RunInv, TypeOK
<1>. QED
  BY <1>1, <1>2, <1>3, PTL DEF Spec
=============================================================================
