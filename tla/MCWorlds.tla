------------------------------ MODULE MCWorlds ------------------------------
(***************************************************************************)
(* What agents live in and what moves them, one part in each behaviour:    *)
(* networks and their generators, grids, what spreads, opinions, the two   *)
(* model packs, and the rules by which players of a game decide and learn. *)
(***************************************************************************)
EXTENDS NetGenerators, Lattice, Contagion, OpinionDynamics, HrLifecycle, OrgSilence, Learners

VARIABLE part

\* Hard edges and tori, among them one that is narrower than the neighbourhoods and one without cells.
Shape(r, c) == {[rows |-> r, cols |-> c, toroidal |-> t] : t \in BOOLEAN}
MCGrids == Shape(2, 2) \cup Shape(3, 2) \cup Shape(1, 3) \cup Shape(3, 3) \cup Shape(0, 2)

\* Everybody, a path, and ties that are heard one way only.
Everyone(S) == [p \in S |-> S \ {p}]
MCAcquaintances == {Everyone(Person), [p \in Person |-> {p - 1, p + 1} \cap Person], [p \in Person |-> {p + 1} \cap Person]}
MCFractions == {<<0, 1>>, <<1, 2>>, <<2, 3>>, <<1, 1>>}

MCProfiles  == [Speaker -> {-One, 0, One \div 2, One}]
MCCircles   == {[i \in Speaker |-> Speaker], <<{2}, {1, 3}, {2}>>, <<{1, 2}, {3}, {}>>}
MCGroupings == {[i \in Speaker |-> 0], <<1, 1, 2>>}
MCWindows   == {<<288, 288>>, <<576, 864>>, <<288, 1152>>}

\* All mechanisms, hiring before turnover, and a scenario that leaves out knowledge loss.
MCWirings ==
  {<<"learning_curve", "turnover", "hiring", "toxic_spread", "org_performance", "socialization", "knowledge_loss">>,
   <<"hiring", "turnover", "org_performance", "socialization", "knowledge_loss">>,
   <<"turnover", "hiring", "org_performance">>}

MCTies == {{{1, 2}, {2, 3}, {3, 4}}, {{1, 2}, {2, 3}, {1, 3}}}
Trim(dissents, open, ivt, theta) == [dissents |-> dissents, open |-> open, ivt |-> ivt, theta |-> theta]
MCCasts ==
  {<<Trim(TRUE, FALSE, 2, <<0, 1>>), Trim(TRUE, TRUE, 1, <<1, 3>>), Trim(TRUE, FALSE, 1, <<1, 2>>), Trim(FALSE, FALSE, 2, <<0, 1>>)>>,
   <<Trim(TRUE, FALSE, 2, <<1, 3>>), Trim(TRUE, TRUE, 1, <<1, 3>>), Trim(TRUE, FALSE, 1, <<1, 3>>), Trim(TRUE, FALSE, 2, <<1, 1>>)>>}
MCAgendas ==
  {<<"retaliation_event", "fear_appraisal", "voice_decision_rule", "silence_spiral", "prefalse_cascade", "org_performance", "climate_silence">>,
   <<"voice_decision", "prefalse_cascade", "org_performance">>}

\* Games with as many actions for both roles, and with two for one and three for the other.
Dilemma == [acts |-> <<2, 2>>, pay |-> LET m == << <<3, 1>>, <<5, 2>> >> IN <<m, m>>]
Crossed == [acts |-> <<2, 2>>, pay |-> << << <<2, 1>>, <<1, 2>> >>, << <<1, 2>>, <<2, 1>> >> >>]
Uneven  == [acts |-> <<2, 3>>, pay |-> << << <<1, 2, 3>>, <<3, 1, 1>> >>, << <<1, 2>>, <<2, 1>>, <<1, 1>> >> >>]
Turned  == [acts |-> <<3, 2>>, pay |-> << Uneven.pay[2], Uneven.pay[1] >>]
Believer(prior, tie) == [kind |-> "fictitious", prior |-> prior, tie |-> tie]
Logit(lambda, est)   == [kind |-> "logit", lambda |-> lambda, estimate |-> est]
Erev(phi, epsilon)   == [kind |-> "roth_erev", start |-> Grain, phi |-> phi, epsilon |-> epsilon]
ErevFrom(start, phi) == [Erev(phi, 0) EXCEPT !.start = start]   \* close to one end of the range
Plan(plan, gen)      == [kind |-> "automaton", plan |-> plan, coop |-> 1, generosity |-> gen]
Myopic(tie)          == [kind |-> "myopic", first |-> 1, tie |-> tie]
Mixing(w)            == [kind |-> "mixed", weights |-> w]
TitForTat            == [kind |-> "tit_for_tat", coop |-> 1]
AtRandom             == [kind |-> "uniform"]
Always(x)            == [kind |-> "fixed", action |-> x]
\* One pair, a round robin, both orders of a pair, and a matching that changes.
Pair  == << << <<1, 2>> >> >>
Robin == << << <<1, 2>>, <<1, 3>>, <<2, 3>> >> >>
Both  == << << <<1, 2>>, <<2, 1>> >> >>
Turns == << << <<1, 2>>, <<3, 2>> >>, << <<2, 3>> >>, << <<3, 1>> >> >>
Among(g, scopes, seatings, casts) ==
  {[game |-> g, scope |-> sc, cast |-> c, seatings |-> seatings] : sc \in scopes, c \in casts}
Fine == {"role", "encounter"}
MCClasses ==
  Among(Dilemma, {"step"}, Pair, {<<Believer(<<>>, "random"), AtRandom>>, <<Logit(1, "frequency"), Erev(1, 1)>>,
                                  <<ErevFrom(2, 1), Plan("tft", 0)>>, <<AtRandom, ErevFrom(Largest - 1, 0)>>,
                                  <<Myopic("lowest"), Plan("gtft", 2)>>, <<Plan("wsls", 0), AtRandom>>})
  \cup Among(Crossed, {"step"}, Turns, {<<Believer(<<1, 0>>, "lowest"), Believer(<<>>, "random"), Myopic("random")>>,
                                        <<Logit(1, "last"), TitForTat, Plan("grim", 0)>>})
  \cup Among(Dilemma, Fine, Robin, {<<Plan("all_d", 0), Plan("tft", 0), AtRandom>>, <<Erev(1, 0), Myopic("lowest"), Always(2)>>,
                                    <<Believer(<<>>, "lowest"), TitForTat, Plan("gtft", 2)>>})
  \cup Among(Dilemma, Fine, Both, {<<Erev(0, 1), Myopic("random")>>, <<Plan("wsls", 0), Plan("all_c", 0)>>,
                                   <<Mixing(<<1, 3>>), Logit(0, "last")>>, <<Plan("grim", 0), Plan("gtft", 0)>>,
                                   <<ErevFrom(4, 1), AtRandom>>})
  \cup Among(Uneven, Fine, Both, {<<Believer(<<>>, "lowest"), AtRandom>>, <<Erev(0, 1), Always(1)>>, <<Always(1), Logit(1, "frequency")>>})
  \cup Among(Turned, Fine, Both, {<<Believer(<<>>, "lowest"), Always(2)>>, <<Erev(0, 1), Always(2)>>})
  \cup Among(Uneven, {"step"}, Pair, {<<Believer(<<0, 1>>, "lowest"), AtRandom>>, <<Plan("tft", 0), AtRandom>>, <<Mixing(<<2, 2>>), AtRandom>>,
                                      <<Myopic("lowest"), Believer(<<>>, "random")>>, <<Always(3), AtRandom>>,
                                      <<Logit(-1, "last"), AtRandom>>})

\* Each part starts as it does by itself; the others rest in one of their first states.
RestOfCrowd == LET all == [p \in Person |-> Person \ {p}]
               IN  /\ crowd = [rule |-> "si_never", near |-> all, theta |-> [p \in Person |-> <<0, 1>>], active |-> {},
                               culture |-> NotYet, stopped |-> FALSE]
                   /\ since = [active |-> {}, culture |-> NotYet, rounds |-> 0, settled |-> NotYet]
RestOfTalk == LET silent == [i \in Speaker |-> 0]
              IN  /\ talk = [rule |-> "social_judgement", circle |-> <<{2}, {1, 3}, {2}>>, group |-> silent,
                             window |-> <<288, 288>>, x |-> silent]
                  /\ talked = [x |-> silent, steps |-> 0]
RestOfPlayers == /\ class = CHOOSE c \in Classes : c.scope = "step"
                 /\ mind = <<>> /\ tape = <<>> /\ past = <<>> /\ now = [status |-> "resting"]
Init ==
  /\ part \in {"network", "generator", "lattice", "crowd", "talk", "firm", "office", "players"}
  /\ NetInit /\ (part # "network" => ~net.directed)
  /\ GenInit
  /\ LatticeInit /\ (part # "lattice" => grid.rows = 0 /\ ~grid.toroidal)
  /\ IF part = "crowd" THEN CrowdInit ELSE RestOfCrowd
  /\ IF part = "talk" THEN TalkInit ELSE RestOfTalk
  /\ HrInit /\ (part # "firm" => Len(month.wiring) = 3 /\ ~firm.staff[0].toxic)
  /\ OfficeInit /\ (part # "office" => Len(session.agenda) = 3 /\ {3, 4} \in office.ties /\ office.cast[4].dissents)
  /\ IF part = "players" THEN TInit ELSE RestOfPlayers

NetworkStep   == part = "network" /\ NetNext /\ UNCHANGED <<part, build, lvars, dvars, ovars, hvars, wvars, tvars>>
GeneratorStep == part = "generator" /\ GenNext /\ UNCHANGED <<part, lvars, dvars, ovars, hvars, wvars, tvars>>
LatticeStep   == part = "lattice" /\ LatticeNext /\ UNCHANGED <<part, gvars, dvars, ovars, hvars, wvars, tvars>>
CrowdStep     == part = "crowd" /\ CrowdNext /\ UNCHANGED <<part, gvars, lvars, ovars, hvars, wvars, tvars>>
TalkStep      == part = "talk" /\ TalkNext /\ UNCHANGED <<part, gvars, lvars, dvars, hvars, wvars, tvars>>
FirmStep      == part = "firm" /\ HrNext /\ UNCHANGED <<part, gvars, lvars, dvars, ovars, wvars, tvars>>
OfficeStep    == part = "office" /\ OfficeNext /\ UNCHANGED <<part, gvars, lvars, dvars, ovars, hvars, tvars>>
PlayersStep   == part = "players" /\ TNext /\ UNCHANGED <<part, gvars, lvars, dvars, ovars, hvars, wvars>>
Next == NetworkStep \/ GeneratorStep \/ LatticeStep \/ CrowdStep \/ TalkStep \/ FirmStep \/ OfficeStep \/ PlayersStep
Spec == Init /\ [][Next]_<<part, gvars, lvars, dvars, ovars, hvars, wvars, tvars>>
=============================================================================
