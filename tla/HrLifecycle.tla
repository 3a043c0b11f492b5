----------------------------- MODULE HrLifecycle -----------------------------
(***************************************************************************)
(* The hr-lifecycle pack: employees in teams and in a network; some quit,  *)
(* which unsettles those they were tied to, their places are filled, and   *)
(* lists of this month's leavers and newcomers go from one mechanism to    *)
(* the next.  A scenario names the mechanisms; which of them run, and in   *)
(* which order within a phase, is up to it.  What only scales a            *)
(* probability between 0 and 1 is left out: anybody may quit.              *)
(***************************************************************************)
EXTENDS Integers, Sequences, FiniteSets, FiniteSetsExt, SequencesExt, Functions
CONSTANTS Teams, TeamSize,   \* teams 0 .. Teams - 1
          Wirings,           \* the mechanisms of a scenario, in the order of their phases
          MaxMonths          \* bound

VARIABLES firm,    \* HrWorld: [staff, ties, next, newHires, departed, headcount], and, as ghosts,
                   \* charged, charges: for whom a team lost knowledge, and how many times
          month,   \* [wiring, at, order, count]: the step of the engine
          books    \* ghost: [quits, left, hired, reported]: of the month, ever, of the month, the metric
hvars == <<firm, month, books>>

\* The phases in their order: Environment, Decision, Interaction, Reward, PostStep.
StageOf ==
  [learning_curve |-> 1, turnover |-> 2, hiring |-> 2, toxic_spread |-> 3, org_performance |-> 4,
   socialization |-> 5, knowledge_loss |-> 5]

ASSUME HrAssumption ==
  /\ Teams \in Nat /\ TeamSize \in Nat
  /\ \A w \in Wirings :
       /\ w \in Seq(DOMAIN StageOf) /\ w # <<>>
       /\ \A i, j \in DOMAIN w : i < j => w[i] # w[j] /\ StageOf[w[i]] <= StageOf[w[j]]

Employee(team, toxic) ==
  [team |-> team, tenure |-> 0, toxic |-> toxic, quitNear |-> 0, socialized |-> FALSE]
Members(staff, team) == {id \in DOMAIN staff : staff[id].team = team}

\* HrWorld::new: teams of equal size; the ring that Watts-Strogatz starts from.
HrInit ==
  LET size == Teams * TeamSize
      ids  == 0 .. size - 1
  IN  /\ \E toxic \in {{}, {0}} :
           firm = [staff |-> [id \in ids |-> Employee(id \div TeamSize, id \in toxic)],
                   ties |-> {{id, (id + 1) % size} : id \in ids}, next |-> size,
                   newHires |-> <<>>, departed |-> <<>>, headcount |-> size, charged |-> {}, charges |-> 0]
      /\ \E w \in Wirings : month = [wiring |-> w, at |-> 0, order |-> {}, count |-> 0]
      /\ books = [quits |-> {}, left |-> << >>, hired |-> {}, reported |-> -1]

\* Simulation::step: the roster of the step is drawn up before its first mechanism.
BeginMonth ==
  /\ month.at = 0 /\ month.count < MaxMonths
  /\ month' = [month EXCEPT !.at = 1, !.order = DOMAIN firm.staff, !.count = month.count + 1]
  /\ books' = [books EXCEPT !.quits = {}, !.hired = {}, !.reported = -1]
  /\ UNCHANGED firm
Turn(name) ==
  /\ month.at > 0 /\ month.wiring[month.at] = name
  /\ month' = [month EXCEPT !.at = IF month.at = Len(month.wiring) THEN 0 ELSE month.at + 1]

LearningCurve ==
  /\ Turn("learning_curve") /\ UNCHANGED books
  /\ firm' = [firm EXCEPT !.staff = [id \in DOMAIN firm.staff |->
                [firm.staff[id] EXCEPT !.tenure = firm.staff[id].tenure + 1]]]

\* One quitter after another, in the order of the step, leaves the world and the network;
\* those tied to it who are still there remember, until the next month's decisions.
WithoutReset(staff) == staff    \* mutant: the count of last month's quitters goes on
Forget(staff) == [id \in DOMAIN staff |-> [staff[id] EXCEPT !.quitNear = 0]]
Leave(f, id) ==
  LET e == f.staff[id]
      shaken(staff) == [b \in DOMAIN staff |->
        IF {id, b} \in f.ties THEN [staff[b] EXCEPT !.quitNear = staff[b].quitNear + 1] ELSE staff[b]]
  IN  [f EXCEPT !.staff = Restrict(shaken(f.staff), DOMAIN f.staff \ {id}),
                !.ties = {t \in f.ties : id \notin t},
                !.departed = Append(f.departed, [id |-> id, team |-> e.team, tenure |-> e.tenure])]
Gone(f, quitters) ==
  LET gone[n \in 0 .. Len(quitters)] == IF n = 0 THEN f ELSE Leave(gone[n - 1], quitters[n])
  IN  gone[Len(quitters)]
Turnover ==
  /\ Turn("turnover")
  /\ \E n \in 0 .. Cardinality(DOMAIN firm.staff) :
     \E quitters \in Injection(1 .. n, month.order \cap DOMAIN firm.staff) :
       /\ firm' = Gone([firm EXCEPT !.headcount = Cardinality(DOMAIN firm.staff), !.staff = Forget(firm.staff)], quitters)
       /\ books' = [books EXCEPT !.quits = ToSet(quitters),
            !.left = [id \in DOMAIN books.left \cup ToSet(quitters) |->
                        IF id \in ToSet(quitters)
                        THEN [team |-> firm.staff[id].team, near |-> {b \in DOMAIN firm.staff : {id, b} \in firm.ties}]
                        ELSE books.left[id]]]

\* Up to its size a team is filled, team after team; a newcomer is tied to the two longest
\* there.
Hire(f, team, toxic) ==
  LET mates == {b \in Members(f.staff, team) : Cardinality({c \in Members(f.staff, team) : c < b}) < 2}
  IN  [f EXCEPT !.staff = [id \in DOMAIN f.staff \cup {f.next} |->
                            IF id = f.next THEN Employee(team, id \in toxic) ELSE f.staff[id]],
                !.ties = f.ties \cup {{f.next, b} : b \in mates},
                !.newHires = Append(f.newHires, f.next), !.next = f.next + 1]
Filled(f, team, toxic) ==
  LET filled[n \in 0 .. TeamSize] ==
        IF n = 0 THEN f
        ELSE IF Cardinality(Members(filled[n - 1].staff, team)) < TeamSize
             THEN Hire(filled[n - 1], team, toxic) ELSE filled[n - 1]
  IN  filled[TeamSize]
Staffed(f, toxic) ==
  LET staffed[n \in 0 .. Teams] == IF n = 0 THEN f ELSE Filled(staffed[n - 1], n - 1, toxic)
  IN  staffed[Teams]
Hiring ==
  /\ Turn("hiring")
  /\ \E toxic \in SUBSET (firm.next .. Staffed(firm, {}).next - 1) :
       /\ firm' = Staffed(firm, toxic)
       /\ books' = [books EXCEPT !.hired = firm.next .. firm'.next - 1]

\* Who is infected in this sweep infects nobody in it.
ToxicSpread ==
  /\ Turn("toxic_spread") /\ UNCHANGED books
  /\ LET exposed == {b \in DOMAIN firm.staff : /\ ~firm.staff[b].toxic
                                               /\ \E id \in DOMAIN firm.staff : firm.staff[id].toxic /\ {id, b} \in firm.ties}
     IN  \E hit \in SUBSET exposed :
           firm' = [firm EXCEPT !.staff = [id \in DOMAIN firm.staff |->
                      [firm.staff[id] EXCEPT !.toxic = firm.staff[id].toxic \/ id \in hit]]]

\* The turnover rate: the length of the list of leavers over the headcount before them.
OrgPerformance ==
  /\ Turn("org_performance") /\ UNCHANGED firm
  /\ books' = [books EXCEPT !.reported = Len(firm.departed)]

\* Each listed leaver's knowledge is taken from its team, then the list is cleared.
KnowledgeLoss ==
  /\ Turn("knowledge_loss") /\ UNCHANGED books
  /\ firm' = [firm EXCEPT !.departed = <<>>, !.charges = firm.charges + Len(firm.departed),
                !.charged = firm.charged \cup {[id |-> d.id, team |-> d.team] : d \in ToSet(firm.departed)}]

Socialization ==
  /\ Turn("socialization") /\ UNCHANGED books
  /\ firm' = [firm EXCEPT !.newHires = <<>>,
                !.staff = [id \in DOMAIN firm.staff |->
                  [firm.staff[id] EXCEPT !.socialized = firm.staff[id].socialized \/ id \in ToSet(firm.newHires)]]]

HrNext == \/ BeginMonth \/ LearningCurve \/ Turnover \/ Hiring \/ ToxicSpread
          \/ OrgPerformance \/ KnowledgeLoss \/ Socialization
HrSpec == HrInit /\ [][HrNext]_hvars

-----------------------------------------------------------------------------
(* Properties *)

Wired(name) == name \in ToSet(month.wiring)
Rank(name) == IF Wired(name) THEN CHOOSE i \in DOMAIN month.wiring : month.wiring[i] = name ELSE 0

\* The books of the firm, whichever mechanisms are wired in whichever order of a phase.
\* An employee never comes back under an old number, ties are between employees, and an
\* employee feels exactly the quits of the last turnover among those it was tied to.
\* Where the mechanism that charges for leavers is wired, the reported leavers are those
\* of the month, and at its end everybody who ever left has been charged to its own team,
\* once; where it is not, the list and with it the reported number keep growing.  At the
\* end of a month teams are full and newcomers who stayed have been socialized, if hiring
\* and socialization are wired.
LifecycleBooks ==
  /\ \A t \in firm.ties : t \subseteq DOMAIN firm.staff /\ Cardinality(t) \in {1, 2}
  /\ DOMAIN firm.staff \cap DOMAIN books.left = {} /\ DOMAIN firm.staff \cup DOMAIN books.left = 0 .. firm.next - 1
  /\ month.at = 0 /\ Wired("turnover") =>
       \A id \in DOMAIN firm.staff :
         firm.staff[id].quitNear = Cardinality({q \in books.quits : id \in books.left[q].near})
  /\ books.reported # -1 =>
       books.reported = IF Wired("knowledge_loss") THEN Cardinality(books.quits) ELSE Cardinality(DOMAIN books.left)
  /\ Wired("knowledge_loss") /\ books.reported # -1 => books.reported <= firm.headcount
  /\ month.at = 0 /\ Wired("knowledge_loss") =>
       /\ firm.departed = <<>> /\ firm.charges = Cardinality(DOMAIN books.left)
       /\ firm.charged = {[id |-> id, team |-> books.left[id].team] : id \in DOMAIN books.left}
  /\ month.at = 0 /\ month.count > 0 /\ Rank("hiring") > Rank("turnover") =>
       \A team \in 0 .. Teams - 1 : Cardinality(Members(firm.staff, team)) = TeamSize
  /\ month.at = 0 /\ Wired("socialization") /\ Wired("hiring") =>
       firm.newHires = <<>> /\ \A id \in books.hired \cap DOMAIN firm.staff : firm.staff[id].socialized
=============================================================================
