---------------------------- MODULE GaitSchedule ----------------------------
(***************************************************************************)
(* OCS2's GaitSchedule and GaitReceiver, libraries outside this repository *)
(* that LeggedInterface::loadGaitSchedule() and LeggedController::setupMpc *)
(* set up: a mode schedule that is cut and extended with a gait as time    *)
(* goes on.  Operators only; the state is SwitchedModelReferenceManager's. *)
(*                                                                         *)
(* A mode is the set of legs in contact.  A mode schedule has one more     *)
(* mode than event times; event i ends phase i.                            *)
(***************************************************************************)
EXTENDS Integers, Sequences, FiniteSets

CONSTANTS
  Legs,        \* the feet
  Gaits,       \* mode sequence templates an operator may ask for
  Transition   \* phaseTransitionStanceTime

STANCE == Legs

\* A template's phase i lasts from switchingTimes[i] to switchingTimes[i + 1].
IsTemplate(g) ==
  /\ g.modeSequence \in Seq(SUBSET Legs) /\ g.modeSequence # <<>>
  /\ g.switchingTimes \in Seq(Nat)
  /\ Len(g.switchingTimes) = Len(g.modeSequence) + 1
  /\ g.switchingTimes[1] = 0
  /\ \A i \in 1..Len(g.modeSequence) : g.switchingTimes[i] < g.switchingTimes[i + 1]

ASSUME GaitAssumption ==
  /\ \A g \in Gaits : IsTemplate(g)
  /\ Transition \in Nat

Duration(g) == g.switchingTimes[Len(g.switchingTimes)]

LastOf(s)  == s[Len(s)]
ButLast(s) == SubSeq(s, 1, Len(s) - 1)

\* std::lower_bound: how many events come before t.
EventsBefore(events, t) == Cardinality({i \in DOMAIN events : events[i] < t})

\* lookup::findIndexInTimeArray: the phase a time falls in.
PhaseAt(events, t) == EventsBefore(events, t) + 1

ModeAt(sched, t) == sched.modeSequence[PhaseAt(sched.eventTimes, t)]

\* tileModeSequenceTemplate(): whole copies of g from start on, as many as it
\* takes to reach final, then a last stance.
Tile(sched, g, start, final) ==
  LET m      == Len(g.modeSequence)
      copies == IF start < final THEN (final - start + Duration(g) - 1) \div Duration(g) ELSE 0
      phases == 1..(copies * m)
      mode   == [i \in phases |-> g.modeSequence[((i - 1) % m) + 1]]
      end    == [i \in phases |-> start + ((i - 1) \div m) * Duration(g)
                                        + g.switchingTimes[((i - 1) % m) + 2]]
  IN  [eventTimes   |-> sched.eventTimes \o <<start>> \o end,
       modeSequence |-> sched.modeSequence \o mode \o <<STANCE>>]

\* getModeSchedule(), first half: forget what is over before lower, but for
\* the last phase, which becomes a stance.
DropPast(sched, lower) ==
  LET n == EventsBefore(sched.eventTimes, lower)
  IN  IF n = 0 THEN sched
      ELSE [eventTimes   |-> SubSeq(sched.eventTimes, n, Len(sched.eventTimes)),
            modeSequence |-> <<STANCE>> \o
                             SubSeq(sched.modeSequence, n + 1, Len(sched.modeSequence))]

\* getModeSchedule(): then the final stance makes way for the gait, up to upper.
GetModeSchedule(sched, g, lower, upper) ==
  LET kept == DropPast(sched, lower)
      open == [eventTimes |-> ButLast(kept.eventTimes), modeSequence |-> ButLast(kept.modeSequence)]
  IN  Tile(open, g, LastOf(kept.eventTimes), upper)

\* insertModeSequenceTemplate(), as GaitReceiver calls it at the end of the
\* horizon: what comes after is dropped, a stance leads over to the new gait,
\* which the next getModeSchedule() tiles.
InsertGait(sched, start) ==
  LET n    == EventsBefore(sched.eventTimes, start)
      kept == [eventTimes   |-> SubSeq(sched.eventTimes, 1, n),
               modeSequence |-> SubSeq(sched.modeSequence, 1, n + 1)]
      lead == IF LastOf(kept.modeSequence) = STANCE \/ Transition = 0
              THEN <<start>> ELSE <<start, start + Transition>>
  IN  [eventTimes   |-> kept.eventTimes \o lead,
       modeSequence |-> kept.modeSequence \o [i \in DOMAIN lead |-> STANCE]]

\* The same schedule on a clock that is d ahead.
Shift(sched, d) ==
  [sched EXCEPT !.eventTimes = [i \in DOMAIN sched.eventTimes |-> sched.eventTimes[i] - d]]
=============================================================================
