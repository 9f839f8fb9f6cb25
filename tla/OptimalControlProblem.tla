------------------------ MODULE OptimalControlProblem ------------------------
(***************************************************************************)
(* The terms LeggedInterface puts in the optimal control problem for every *)
(* foot, which of them act at a time of the horizon, and how the normal    *)
(* velocity constraint gets its configuration: the solver requests a       *)
(* precomputation for a time, which asks the swing planner and keeps the   *)
(* answer until the next request.  Numbers are left out: a configuration   *)
(* is told by its rows and by the swing it was computed from.              *)
(***************************************************************************)
EXTENDS SwitchedModelReferenceManager

\* setupOptimalControlProblem(): the terms of a foot, and their constructors'
\* numbers of rows.  Forces and velocities have three components.
Terms == {"zeroForce", "frictionCone", "zeroVelocity", "normalVelocity"}

NumConstraints == [zeroForce |-> 3, frictionCone |-> 1, zeroVelocity |-> 3, normalVelocity |-> 1]

\* getContactFlags()
GetContactFlags(t) == ModeAt(modeSchedule, t)

IsActiveAhead(term, leg, t) ==   \* mutant: the mode after an event at that event
  (leg \in ModeAt(modeSchedule, t + 1)) = (term \in {"frictionCone", "zeroVelocity"})

\* isActive(): two terms bind a foot on the ground, the others a foot in the air.
IsActive(term, leg, t) ==
  (leg \in GetContactFlags(t)) = (term \in {"frictionCone", "zeroVelocity"})

-----------------------------------------------------------------------------
(* Configurations of the linear end effector constraints.                  *)

\* A default-constructed one has no rows.
NoConfig == [rows |-> 0]

\* eeZeroVelConConfig, set for good: no velocity, and the height is the ground's.
ZeroVelocityConfig == [rows |-> 3]

\* eeNormalVelConConfig: along the swing that the planner has for that time.
NormalVelocityConfig(leg, t) == [rows |-> 1, foot |-> FootAt(leg, t), at |-> t]

Everything == {"Cost", "Constraint", "SoftConstraint"}

RequestOnce(requested, t, configs) ==   \* mutant: computed where it is missing only
  [leg \in Legs |-> IF "Constraint" \in requested /\ configs[leg] = NoConfig
                    THEN NormalVelocityConfig(leg, t) ELSE configs[leg]]

\* LeggedRobotPreComputation::request(): eeNormalVelConConfigs_ afterwards.
Request(requested, t, configs) ==
  IF "Constraint" \in requested
  THEN [leg \in Legs |-> NormalVelocityConfig(leg, t)]
  ELSE configs

\* A new precomputation, and a clone for another thread of the solver, have none.
NewPreComputation == [leg \in Legs |-> NoConfig]

\* The configuration with which a linear end effector constraint is evaluated.
ConfigOf(term, leg, configs) ==
  IF term = "normalVelocity" THEN configs[leg] ELSE ZeroVelocityConfig

\* getLinearApproximation(): fits where the configuration has the term's rows.
Fits(term, leg, configs) ==
  term \in {"zeroVelocity", "normalVelocity"} =>
    ConfigOf(term, leg, configs).rows = NumConstraints[term]

\* weightCompensatingInput() for the initial guess and for the tracking cost:
\* the feet that are given a share of the weight.
NominalForces(t) == GetContactFlags(t)

-----------------------------------------------------------------------------
(* Properties.                                                             *)

\* What an earlier evaluation, for the constraints or without them, left.
EarlierConfigs ==
  {NewPreComputation} \cup {Request(Everything, s, NewPreComputation) : s \in 0..Horizon}

\* Whenever the solver evaluates the constraints, whatever it asked for before:
\* a foot in the air gets no force and follows the swing of that very time,
\* between its lift-off and touch-down; a foot on the ground stays there, and
\* its force in its cone.  Nothing else binds it, every term has as many rows
\* as it says, and what the cost pulls towards satisfies the force constraints.
FootTermsFit ==
  planned => \A t \in 0..Horizon, earlier \in EarlierConfigs :
    LET configs == Request(Everything, t, earlier)
    IN  \A leg \in Legs :
          LET active == {term \in Terms : IsActive(term, leg, t)}
              swing  == configs[leg].foot
          IN  /\ \A term \in active : Fits(term, leg, configs)
              /\ \/ /\ active = {"zeroForce", "normalVelocity"}
                    /\ swing.swings /\ swing.liftOff < t /\ t <= swing.touchDown
                    /\ leg \notin NominalForces(t)
                 \/ /\ active = {"frictionCone", "zeroVelocity"}
                    /\ ~swing.swings
                    /\ leg \in NominalForces(t)
=============================================================================
