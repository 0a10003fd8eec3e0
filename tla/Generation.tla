------------------------------ MODULE Generation ------------------------------
(***************************************************************************)
(* The Generation algorithm on one Gaudi thread: for each event a number   *)
(* of interactions is drawn, the sample generation tool generates them     *)
(* until a try is good, and the counters of the generator record (GenFSR)  *)
(* of the thread are kept.  The methods are the tools MinimumBias,         *)
(* Inclusive, SignalPlain, SignalForcedFragmentation and                   *)
(* SignalRepeatedHadronization; the production tool is Pythia8Production   *)
(* or Pythia8ProductionMT.  The generator of the second belongs to the     *)
(* thread and is made by the first call that needs it; it survives the     *)
(* event, and so do its record and the partons saved from it.              *)
(*                                                                         *)
(* An interaction is its partons (which interaction of which try of which  *)
(* event they were generated for, and whether they have a quark of the     *)
(* signal), how far it was brought, whether it is the one the method kept, *)
(* whether a forced decay hangs in it, and isSignal of its collision.      *)
(* Hadronisation is off exactly in the calls of generateEvent of           *)
(* SignalRepeatedHadronization before the signal is found, so the flag     *)
(* HadronLevel:Hadronize is not a variable.                                *)
(***************************************************************************)
EXTENDS Integers, Sequences, FiniteSets

CONSTANTS
  Events,           \* events of the thread
  MaxTries,         \* bound: tries of one event
  MaxPile,          \* bound: interactions of one try
  MaxRepetitions,   \* SignalRepeatedHadronization.MaxNumberOfRepetitions
  UIntSize,         \* 2^32 in the build: the range of an unsigned int
  SignalFromOthers  \* a signal hadron may come from a parton event without a
                    \* signal quark (charm from the decay of beauty)

ASSUME GenerationAssumption ==
  /\ Events \in Nat \ {0} /\ MaxTries \in Nat /\ MaxPile \in Nat
  /\ MaxRepetitions \in Nat \ {0} /\ UIntSize \in Nat \ {0}
  /\ SignalFromOthers \in BOOLEAN

VARIABLES
  method, mt,     \* the configuration: the tools,
  clean,          \* and the property Clean of the signal tools
  pc, event, tries, nPile,
  theEvents,      \* theEvents with their theCollisions
  good,           \* goodEvent, and result / gotSignalInteraction of the tool
  nRepetitions,
  gen,            \* the thread's generator: none, made but not set up, ready
  record,         \* its event record
  saved,          \* m_event
  intCounter,     \* theIntCounter[Oneb]
  n               \* counters of the GenFSR

vars == <<method, mt, clean, pc, event, tries, nPile, theEvents, good, nRepetitions,
          gen, record, saved, intCounter, n>>

SignalMethods == {"Plain", "Forced", "Repeated"}    \* the classes of Signal

Methods == {"MinimumBias", "Inclusive"} \cup SignalMethods

Origins == (0..Events) \X (0..MaxTries) \X (0..MaxPile)
PartonEvent == [origin : Origins, quark : BOOLEAN]
Interaction == [partons : PartonEvent, level : {"parton", "hadron", "empty"},
                signal : BOOLEAN, forced : BOOLEAN, isSignal : BOOLEAN]

Counters == {"EvtGenerated", "IntGenerated", "OnebGen", "BeforeLevelCut",
             "AfterLevelCut", "EvtInverted", "EvtSignal", "BeforeFullEvt",
             "AfterFullEvt", "EvtAccepted", "IntAccepted", "OnebAcc"}

UInt == 0..(UIntSize - 1)

TypeOK ==
  /\ method \in Methods /\ mt \in BOOLEAN /\ clean \in BOOLEAN
  /\ pc \in {"start", "signal", "generate", "hadronize", "look", "account",
             "accept", "accepted", "failed", "crashed"}
  /\ event \in 1..Events /\ tries \in 0..MaxTries /\ nPile \in 0..MaxPile
  /\ theEvents \in Seq(Interaction) /\ Len(theEvents) <= nPile
  /\ good \in BOOLEAN
  /\ nRepetitions \in 0..MaxRepetitions
  /\ gen \in {"none", "raw", "ready"}
  /\ record \in PartonEvent /\ saved \in PartonEvent
  /\ intCounter \in UInt
  /\ n \in [Counters -> Nat]

NoPartons == [origin |-> <<0, 0, 0>>, quark |-> FALSE]

\* theIntCounter is declared and never given a value: it starts anywhere.
Init ==
  /\ method \in Methods /\ mt \in BOOLEAN
  /\ clean \in IF method \in SignalMethods THEN BOOLEAN ELSE {FALSE}
  /\ pc = "start" /\ event = 1 /\ tries = 0 /\ nPile = 0
  /\ theEvents = <<>> /\ good = FALSE /\ nRepetitions = 0
  /\ gen = IF mt THEN "none" ELSE "ready"
  /\ record = NoPartons /\ saved = NoPartons
  /\ intCounter \in UInt
  /\ n = [c \in Counters |-> 0]

config == <<method, mt, clean>>
position == <<event, tries, nPile>>
pythia == <<gen, record, saved>>

Count(cs) == n' = [c \in Counters |-> IF c \in cs THEN n[c] + 1 ELSE n[c]]

-----------------------------------------------------------------------------

\* The loop over the tries begins: numberOfPileUp may be zero.
StartTry(k) ==
  /\ pc = "start" /\ tries < MaxTries
  /\ tries' = tries + 1 /\ nPile' = k
  /\ theEvents' = <<>>
  /\ good' = (k = 0 \/ method = "MinimumBias")
  /\ pc' = IF k = 0 THEN "account"
           ELSE IF method = "Forced" THEN "signal" ELSE "generate"
  /\ nRepetitions' = 0
  /\ UNCHANGED <<config, event, pythia, intCounter, n>>

\* SignalForcedFragmentation decays the signal at rest first; then
\* setupForcedFragmentation uses the generator of the thread, made or not.
DecaySignalAtRest ==
  /\ pc = "signal"
  /\ pc' \in {"account", IF gen = "none" THEN "crashed" ELSE "generate"}
  /\ UNCHANGED <<config, position, theEvents, good, nRepetitions, pythia,
                 intCounter, n>>

\* Where an interaction's end leads: to the next one or out of the tool.
NextInteraction(k) == IF k = nPile THEN "account" ELSE "generate"

PartonLevel == method = "Repeated" /\ ~good

\* prepareInteraction and generateEvent.  The pile-up after the signal is
\* hadronised again by the tool when the production tool is Pythia8Production.
Generate(quark) ==
  /\ pc = "generate" /\ gen # "raw"
  /\ gen' = "ready"
  /\ LET k == Len(theEvents) + 1
         partons == [origin |-> <<event, tries, k>>, quark |-> quark]
     IN  /\ record' = partons
         /\ theEvents' = Append(theEvents,
              [partons |-> partons, signal |-> FALSE, forced |-> FALSE,
               level |-> IF PartonLevel THEN "parton" ELSE "hadron",
               isSignal |-> PartonLevel /\ k = 1])
         /\ pc' = IF method = "Repeated" /\ ~(good /\ mt) THEN "hadronize"
                  ELSE IF good THEN NextInteraction(k) ELSE "look"
  /\ UNCHANGED <<config, position, good, nRepetitions, saved, intCounter, n>>

\* The set-up of the thread's generator or all calls of next fail: the tool
\* throws.  A generator whose set-up failed stays and fails in later events.
GenerateFails ==
  /\ pc = "generate"
  /\ gen' \in IF gen = "none" THEN {"raw", "ready"} ELSE {gen}
  /\ pc' = "failed"
  /\ UNCHANGED <<config, position, theEvents, good, nRepetitions, record,
                 saved, intCounter, n>>

Current == theEvents[Len(theEvents)]

\* Clear and hadronize: the interaction is rebuilt from the record; when that
\* fails it stays empty, and nobody looks at the status.
Rebuilt(partons, ok) ==
  theEvents' = [theEvents EXCEPT ![Len(theEvents)] =
                  [@ EXCEPT !.partons = partons, !.forced = FALSE,
                            !.level = IF ok THEN "hadron" ELSE "empty"]]

BadSaves == Current.partons.quark /\ saved = NoPartons   \* the first only

\* checkPresence of the signal quarks.
Saves == Current.partons.quark

\* savePartonEvent, turnOnFragmentation, Clear, hadronize; with the signal found
\* only the last two.
Hadronize(ok) ==
  /\ pc = "hadronize"
  /\ Rebuilt(record, ok)
  /\ saved' = IF ~good /\ Saves THEN record ELSE saved
  /\ pc' = IF good THEN NextInteraction(Len(theEvents)) ELSE "look"
  /\ nRepetitions' = 0
  /\ UNCHANGED <<config, position, good, gen, record, intCounter, n>>

\* retrievePartonEvent, savePartonEvent, Clear, hadronize
HadronizeAgain(ok) ==
  /\ record' = saved
  /\ Rebuilt(saved, ok)
  /\ nRepetitions' = nRepetitions + 1
  /\ UNCHANGED <<gen, saved>>

\* checkPresence of the signal, after decayHeavyParticles
SignalMayBePresent ==
  Current.level = "hadron" /\ (Current.partons.quark \/ SignalFromOthers)

\* No signal: a parton event with signal quarks is hadronised again.
SignalAbsent(ok) ==
  /\ pc = "look"
  /\ IF method = "Repeated" /\ Current.partons.quark
     THEN /\ HadronizeAgain(ok)
          /\ pc' = IF nRepetitions + 1 < MaxRepetitions
                   THEN "look" ELSE NextInteraction(Len(theEvents))
     ELSE /\ pc' = NextInteraction(Len(theEvents))
          /\ UNCHANGED <<theEvents, nRepetitions, pythia>>
  /\ UNCHANGED <<config, position, good, intCounter, n>>

\* An interaction with a signal that is not kept: repeated hadronisation takes
\* a fresh one in its place and looks no further.
Dropped(withDecay, ok) ==
  /\ pc' = NextInteraction(Len(theEvents))
  /\ IF method = "Repeated"
     THEN HadronizeAgain(ok)
     ELSE /\ theEvents' = [theEvents EXCEPT ![Len(theEvents)].forced = withDecay]
          /\ UNCHANGED <<nRepetitions, pythia>>

\* ensureMultiplicity says no, or the decay has flipped the signal.
SignalUnusable(ok) ==
  /\ pc = "look" /\ SignalMayBePresent
  /\ method \in {"Plain", "Repeated"}
  /\ Dropped(FALSE, ok)
  /\ UNCHANGED <<config, position, good, intCounter, n>>

\* The decay of the signal fails: the try is given up.
SignalDecayFails ==
  /\ pc = "look" /\ SignalMayBePresent
  /\ method \in {"Plain", "Repeated", "Forced"}
  /\ Count(IF method = "Forced" THEN {"BeforeLevelCut"} ELSE {})
  /\ pc' = "account"
  /\ UNCHANGED <<config, position, theEvents, good, nRepetitions, pythia,
                 intCounter>>

BadSignalCut(ok) ==    \* RemoveDaughters is forgotten
  /\ pc = "look" /\ SignalMayBePresent
  /\ Count({"BeforeLevelCut"})
  /\ Dropped(method # "Inclusive", ok)
  /\ UNCHANGED <<config, position, good, intCounter>>

\* applyCut says no.  SignalForcedFragmentation leaves the decay it attached.
SignalCut(ok) ==
  /\ pc = "look" /\ SignalMayBePresent
  /\ Count({"BeforeLevelCut"})
  /\ Dropped(method = "Forced", ok)
  /\ UNCHANGED <<config, position, good, intCounter>>

BadKeptCounters(inverted) ==    \* inverted events are counted twice
  {"BeforeLevelCut", "AfterLevelCut"}
    \cup (IF inverted THEN {"EvtInverted"} ELSE {})
    \cup (IF method = "Inclusive" THEN {} ELSE {"EvtSignal"})

KeptCounters(inverted) ==
  {"BeforeLevelCut", IF inverted THEN "EvtInverted" ELSE "AfterLevelCut"}
    \cup (IF method = "Inclusive" THEN {} ELSE {"EvtSignal"})

\* With Clean, isolateSignal has no way to return what it makes and always
\* fails: the tool throws, with the cut counted and the signal not.
SignalNotIsolated(inverted) ==
  /\ pc = "look" /\ SignalMayBePresent /\ clean
  /\ Count(KeptCounters(inverted) \ {"EvtSignal"})
  /\ pc' = "failed"
  /\ UNCHANGED <<config, position, theEvents, good, nRepetitions, pythia,
                 intCounter>>

\* setIsSignal is commented out in SignalRepeatedHadronization.
SignalKept(inverted) ==
  /\ pc = "look" /\ SignalMayBePresent /\ ~clean
  /\ Count(KeptCounters(inverted))
  /\ theEvents' = [theEvents EXCEPT ![Len(theEvents)] =
                     [@ EXCEPT !.signal = TRUE, !.forced = method # "Inclusive",
                               !.isSignal = Current.isSignal \/ method # "Repeated"]]
  /\ good' = TRUE
  /\ pc' = NextInteraction(Len(theEvents))
  /\ UNCHANGED <<config, position, nRepetitions, pythia, intCounter>>

-----------------------------------------------------------------------------

\* updateInteractionCounters: theIntCounter is not reset between the tries.
WithQuark ==
  Cardinality({k \in DOMAIN theEvents :
                 theEvents[k].level # "empty" /\ theEvents[k].partons.quark})

\* The end of a try: counters, decayEvent, the cut on the full event.
\* theIntCounter goes into the GenFSR as it is, with what it was born with and
\* what the earlier tries have left in it.
Account(decayed, cut) ==
  /\ pc = "account"
  /\ LET count == (intCounter + (IF nPile = 0 THEN 0 ELSE WithQuark)) % UIntSize
         before == nPile > 0 /\ good /\ decayed
         after == before /\ cut
     IN  /\ intCounter' = count
         /\ n' = [n EXCEPT
                    !.EvtGenerated = @ + 1, !.IntGenerated = @ + nPile,
                    !.OnebGen = @ + (IF nPile = 0 THEN 0 ELSE count),
                    !.BeforeFullEvt = @ + (IF before THEN 1 ELSE 0),
                    !.AfterFullEvt = @ + (IF after THEN 1 ELSE 0)]
         /\ good' = (nPile = 0 \/ after)
         /\ pc' = IF nPile = 0 \/ after THEN "accept" ELSE "start"
  /\ UNCHANGED <<config, position, theEvents, nRepetitions, pythia>>

\* The first of theEvents is copied even when there is none, which is undefined.
Crash ==
  /\ pc = "account" /\ nPile > 0 /\ theEvents = <<>>
  /\ pc' = "crashed"
  /\ UNCHANGED <<config, position, theEvents, good, nRepetitions, pythia,
                 intCounter, n>>

Accept ==
  /\ pc = "accept"
  /\ n' = [n EXCEPT !.EvtAccepted = @ + 1, !.IntAccepted = @ + nPile,
                    !.OnebAcc = @ + (IF nPile = 0 THEN 0 ELSE intCounter)]
  /\ pc' = "accepted"
  /\ UNCHANGED <<config, position, theEvents, good, nRepetitions, pythia,
                 intCounter>>

\* The thread's next event, also after one the algorithm threw out of, with a
\* theIntCounter of its own.
NextEvent ==
  /\ pc \in {"accepted", "failed"} /\ event < Events
  /\ event' = event + 1 /\ tries' = 0 /\ nPile' = 0
  /\ pc' = "start"
  /\ theEvents' = <<>> /\ good' = FALSE /\ intCounter' \in UInt
  /\ UNCHANGED <<config, nRepetitions, pythia, n>>

\* The end of the job, of the program, or of the tries the bound allows.
Stopped ==
  /\ \/ pc = "crashed"
     \/ pc \in {"accepted", "failed"} /\ event >= Events
     \/ pc = "start" /\ tries = MaxTries
  /\ UNCHANGED vars

Next ==
  \/ \E k \in 0..MaxPile : StartTry(k)
  \/ DecaySignalAtRest
  \/ GenerateFails
  \/ SignalDecayFails
  \/ Crash
  \/ Accept
  \/ NextEvent
  \/ Stopped
  \/ \E b \in BOOLEAN :
       \/ Generate(b)
       \/ Hadronize(b)
       \/ SignalAbsent(b)
       \/ SignalUnusable(b)
       \/ SignalCut(b)
       \/ SignalKept(b)
       \/ SignalNotIsolated(b)
       \/ \E c \in BOOLEAN : Account(b, c)

Spec == Init /\ [][Next]_vars

-----------------------------------------------------------------------------
(* Properties *)

\* An accepted event of a signal method has one interaction the method kept,
\* hadronised, and with the signal's forced decay in it; no other interaction has
\* a forced decay left or is at parton level, whatever was tried and dropped
\* before.  isSignal of the collisions marks the same interaction.  The tools
\* SignalForcedFragmentation (decays left behind) and
\* SignalRepeatedHadronization (isSignal set before the signal is known) are
\* excepted where their code does not give this.
SignalUnique ==
  pc = "accepted" /\ nPile > 0 /\ method # "MinimumBias" =>
    /\ \E k \in DOMAIN theEvents :
         /\ theEvents[k].signal /\ theEvents[k].level = "hadron"
         /\ theEvents[k].forced = (method # "Inclusive")
         /\ \A j \in DOMAIN theEvents \ {k} :
              /\ ~theEvents[j].signal
              /\ theEvents[j].level # "parton"
              /\ theEvents[j].forced => method = "Forced"
    /\ method # "Repeated" =>
         \A k \in DOMAIN theEvents : theEvents[k].isSignal = theEvents[k].signal

\* No interaction is made from the partons of another one, of an earlier try or
\* of an earlier event, though the saved partons outlive them all: what is
\* retrieved was saved in the same interaction.
OwnPartons ==
  \A k \in DOMAIN theEvents :
    theEvents[k].level # "empty" =>
      theEvents[k].partons.origin = <<event, tries, k>>

\* What a kept signal leaves in the record: with Clean it is thrown away
\* between the counter of the cut and its own.
SignalsKept ==
  IF method = "Inclusive" THEN n.AfterLevelCut + n.EvtInverted ELSE n.EvtSignal

\* The counters the efficiencies are made of agree, after events that end and
\* events the algorithm throws out of: a signal that passes the cut of the
\* generator level, inverted or not, is counted as kept once, and with Clean
\* never; the cut on the full event sees at most the kept ones and what it
\* passes is accepted; no counter of the accepted ones overtakes that of the
\* generated ones, and when no try was rejected they are the same.  The last two
\* hold of the counts of interactions with a quark, too, although what these
\* start from is garbage (Generation.cpp:172): the same garbage is in both.
CountersAgree ==
  pc \in {"start", "accepted", "failed"} =>
    /\ n.AfterLevelCut + n.EvtInverted <= n.BeforeLevelCut
    /\ method \in SignalMethods =>
         n.EvtSignal = IF clean THEN 0 ELSE n.AfterLevelCut + n.EvtInverted
    /\ method # "MinimumBias" => n.BeforeFullEvt <= SignalsKept
    /\ n.AfterFullEvt <= n.BeforeFullEvt /\ n.AfterFullEvt <= n.EvtAccepted
    /\ n.EvtAccepted <= n.EvtGenerated
    /\ n.IntAccepted <= n.IntGenerated /\ n.OnebAcc <= n.OnebGen
    /\ n.EvtGenerated = n.EvtAccepted =>
         n.OnebAcc = n.OnebGen /\ n.IntAccepted = n.IntGenerated
=============================================================================
