----------------------------- MODULE OrgSilence -----------------------------
(***************************************************************************)
(* The organizational-silence pack: who voices a concern and who keeps     *)
(* silent, from what motive, and the cascade in which the voice of some    *)
(* gives voice to others.  One model step is one mechanism.  Voice is      *)
(* decided by a rule whose probability lies strictly between 0 and 1, or   *)
(* by a language model, whose call may fail in the middle of the roster.   *)
(***************************************************************************)
EXTENDS Integers, Sequences, FiniteSets, FiniteSetsExt, Functions
CONSTANTS Worker, Ties,         \* numbers, and the networks looked at: sets of pairs
          Casts,                \* what is fixed of the workers: worker -> [dissents, open, ivt, theta]
          Fear, Sensitivity,    \* fear is counted in 0 .. Fear
          Agendas,              \* mechanisms of a scenario in the order of their phases
          MaxSessions           \* bound: steps

\* The phase each mechanism runs in, by its place in a step.
PhaseOf(name) == CASE name = "retaliation_event" -> 1
                   [] name \in {"fear_appraisal", "voice_decision_rule", "voice_decision"} -> 2
                   [] name \in {"silence_spiral", "prefalse_cascade"} -> 3
                   [] name = "org_performance" -> 4
                   [] name = "climate_silence" -> 5
Mechanisms == {"retaliation_event", "fear_appraisal", "voice_decision_rule", "voice_decision",
               "silence_spiral", "prefalse_cascade", "org_performance", "climate_silence"}
ASSUME OfficeAssumption ==
  /\ IsFiniteSet(Worker) /\ Fear \in Nat /\ Sensitivity \in Nat
  /\ Casts \subseteq [Worker -> [dissents : BOOLEAN, open : BOOLEAN, ivt : Int, theta : Int \X Nat]]
  /\ \A agenda \in Agendas : /\ agenda \in Seq(Mechanisms) /\ agenda # <<>>
                             /\ \A i, j \in DOMAIN agenda : i <= j => PhaseOf(agenda[i]) <= PhaseOf(agenda[j])

VARIABLES office,    \* [ties, cast, voice, motive, fear, targets, ratio, climate, volume]
          session,   \* [agenda, at, count, failed]: the step of the engine
          minutes    \* ghost: who was silent and dissented as the last cascade began, and its outcome
wvars == <<office, session, minutes>>

Contacts(w) == {v \in Worker : {v, w} \in office.ties}
Voicing(voice) == {w \in Worker : voice[w] = "voice"}
Concealing(voice) == {w \in Worker : voice[w] = "silence" /\ office.cast[w].dissents}

OfficeInit ==
  /\ \E ties \in Ties, cast \in Casts, agenda \in Agendas :
       /\ office = [ties |-> ties, cast |-> cast, voice |-> [w \in Worker |-> "neutral"],
                    motive |-> [w \in Worker |-> "none"], fear |-> [w \in Worker |-> 1], targets |-> {},
                    ratio |-> [w \in Worker |-> 0], climate |-> 0, volume |-> 0]
       /\ session = [agenda |-> agenda, at |-> 0, count |-> 0, failed |-> FALSE]
  /\ minutes = [start |-> {}, voiced |-> {}, done |-> FALSE]

OpenSession == /\ session.at = 0 /\ session.count < MaxSessions
               /\ session' = [session EXCEPT !.at = 1, !.count = session.count + 1, !.failed = FALSE]
               /\ minutes' = [minutes EXCEPT !.done = FALSE] /\ UNCHANGED office
Item(name) == session.at > 0 /\ session.agenda[session.at] = name
Done == session' = [session EXCEPT !.at = IF session.at = Len(session.agenda) THEN 0 ELSE session.at + 1]

\* retaliation_event: the list of the step before goes, then maybe somebody who voiced, or
\* anybody if nobody did, is hit together with the neighbours.
Retaliation ==
  /\ Item("retaliation_event") /\ Done /\ UNCHANGED minutes
  /\ \/ office' = [office EXCEPT !.targets = {}]
     \/ \E w \in IF Voicing(office.voice) = {} THEN Worker ELSE Voicing(office.voice) :
          office' = [office EXCEPT !.targets = Contacts(w) \cup {w}]

Bounded(f) == Max({0, Min({Fear, f})})
FearAppraisal ==
  /\ Item("fear_appraisal") /\ Done /\ UNCHANGED minutes
  /\ office' = [office EXCEPT !.fear = [w \in Worker |->
       Bounded(office.fear[w] + (IF w \in office.targets THEN Sensitivity ELSE 0) - 1)]]

ClassifyMotive(w) == CASE office.cast[w].open /\ office.cast[w].dissents -> "prosocial"
                       [] office.fear[w] >= office.cast[w].ivt -> "defensive"
                       [] OTHER -> "acquiescent"
Speaks(voices, asked, motive) ==
  office' = [office EXCEPT
    !.voice = [w \in Worker |-> IF w \notin asked THEN office.voice[w] ELSE IF w \in voices THEN "voice" ELSE "silence"],
    !.motive = [w \in Worker |-> IF w \notin asked THEN office.motive[w] ELSE IF w \in voices THEN "none" ELSE motive[w]]]
VoiceRule ==
  /\ Item("voice_decision_rule") /\ Done /\ UNCHANGED minutes
  /\ \E voices \in SUBSET Worker : Speaks(voices, Worker, [w \in Worker |-> ClassifyMotive(w)])

\* voice_decision: the answers come one by one; an error leaves those before it decided
\* and ends the step.  An answer without a known motive counts as defensive.
VoiceLlm ==
  /\ Item("voice_decision")
  /\ \E asked \in SUBSET Worker : \E voices \in SUBSET asked :
       \E motive \in [asked \ voices -> {"acquiescent", "defensive", "prosocial"}] :
         /\ Speaks(voices, asked, motive)
         /\ IF asked = Worker THEN Done /\ UNCHANGED minutes
            ELSE /\ session' = [session EXCEPT !.at = 0, !.failed = TRUE] /\ UNCHANGED minutes

\* silence_spiral: who is silent around an agent is kept for the next decision.
SilenceSpiral ==
  /\ Item("silence_spiral") /\ Done /\ UNCHANGED minutes
  /\ office' = [office EXCEPT !.ratio = [w \in Worker |-> Cardinality({v \in Contacts(w) : office.voice[v] = "silence"})]]

\* prefalse_cascade: rounds over a snapshot, until a round finds nobody.
Emboldened(voice) ==
  {w \in Concealing(voice) :
     LET n == Cardinality(Contacts(w))
     IN  n > 0 /\ Cardinality(Contacts(w) \cap Voicing(voice)) * office.cast[w].theta[2] > office.cast[w].theta[1] * n}
Raised(voice, who) == [w \in Worker |-> IF w \in who THEN "voice" ELSE voice[w]]
SingleRound(voice) == Raised(voice, Emboldened(voice))     \* mutant: no second round
Cascaded(voice) ==
  LET round[k \in 0 .. Cardinality(Worker)] ==
        IF k = 0 THEN voice ELSE LET before == round[k - 1] IN Raised(before, Emboldened(before))
  IN  round[Cardinality(Worker)]
PrefalseCascade ==
  /\ Item("prefalse_cascade") /\ Done
  /\ LET after == Cascaded(office.voice)
     IN  /\ office' = [office EXCEPT !.voice = after,
                         !.motive = [w \in Worker |-> IF after[w] = "voice" THEN "none" ELSE office.motive[w]]]
         /\ minutes' = [start |-> Concealing(office.voice), voiced |-> Voicing(office.voice), done |-> TRUE]

\* recompute_macro_aggregates, by org_performance before it reports and by climate_silence.
Aggregate ==
  /\ Item("org_performance") \/ Item("climate_silence")
  /\ Done /\ UNCHANGED minutes
  /\ office' = [office EXCEPT !.climate = Cardinality(Concealing(office.voice)),
                              !.volume = Cardinality(Voicing(office.voice))]

OfficeNext == \/ OpenSession \/ Retaliation \/ FearAppraisal \/ VoiceRule \/ VoiceLlm
              \/ SilenceSpiral \/ PrefalseCascade \/ Aggregate
OfficeSpec == OfficeInit /\ [][OfficeNext]_wvars

-----------------------------------------------------------------------------
(* Properties *)

OnAgenda(name) == \E i \in DOMAIN session.agenda : session.agenda[i] = name

\* Whatever the order of the mechanisms and wherever a call of the language model failed:
\* a motive is held exactly by those who are silent.  A cascade gave voice to the least
\* set of concealed dissenters after which none is left whose contacts voice above its
\* threshold, and to nobody else.  After a step that did not fail, the climate and the
\* volume are those of the agents if a mechanism refreshes them, and the silence that the
\* next decision will find around an agent is at least what there is: the cascade may
\* have broken some of it since, nothing has added to it.
OfficeCoherent ==
  /\ \A w \in Worker : (office.motive[w] # "none") <=> (office.voice[w] = "silence")
  /\ minutes.done =>
       LET raised == Voicing(office.voice) \ minutes.voiced
           share(w, S) == Cardinality({v \in Worker : {v, w} \in office.ties /\ v \in S})
           urged(w, S) == share(w, S) * office.cast[w].theta[2] > office.cast[w].theta[1] * share(w, Worker)
           closed(S) == \A w \in minutes.start \ S : ~urged(w, minutes.voiced \cup S)
       IN  /\ raised \subseteq minutes.start /\ closed(raised)
           /\ \A S \in SUBSET minutes.start : closed(S) => raised \subseteq S
  /\ session.at = 0 /\ ~session.failed /\ session.count > 0 /\ (OnAgenda("org_performance") \/ OnAgenda("climate_silence")) =>
       office.climate = Cardinality(Concealing(office.voice)) /\ office.volume = Cardinality(Voicing(office.voice))
  /\ session.at = 0 /\ ~session.failed /\ session.count > 0 /\ OnAgenda("silence_spiral") =>
       \A w \in Worker : office.ratio[w] >= Cardinality({v \in Contacts(w) : office.voice[v] = "silence"})
=============================================================================
