----------------------------- MODULE CreditFlags -----------------------------
(***************************************************************************)
(* flags.py, the credit detector of brain/detectors.py and the routes by   *)
(* which a person clears or overrides a flag.  What becomes of the events  *)
(* is in EventBus.                                                         *)
(*                                                                         *)
(* A pass of the detector reads the ledger once, raises flags one commit   *)
(* at a time, emits events for the worst few of those it changed, and      *)
(* clears flags one commit at a time.  What it emitted is committed with   *)
(* the first thing it commits next.  Between two commits people act or the *)
(* process dies.  What a pass reads is anything: the ledger moves as it    *)
(* will from one to the next.  Flags are raised by this detector only, and *)
(* one pass of it runs at a time.                                          *)
(*                                                                         *)
(* Amounts are left out: a position says what assess asks of them, and     *)
(* which of two equally grave flags is asked about first is left open.     *)
(***************************************************************************)
EXTENDS Integers, FiniteSets

CONSTANTS
    FlagCustomers,
    Positions,        \* what the ledger may say of a customer
    Calm,             \* one of them, for when nobody looks
    MaxHolds,         \* MAX_HOLD_PROPOSALS_PER_PASS
    NoFlag,
    MaxFlagFaults     \* bound: passes cut off

VERY_OLD_DAYS      == 120
EXPOSURE_SHARE_PCT == 25
FlagLevels   == {"watch", "hold"}
Position == [owes : BOOLEAN, oldest : Nat, share : 0..100, rung : 0..4, broken : Nat]

\* told is the level the one event of this row's id went out with.
Flag  == [level : FlagLevels, overridden : BOOLEAN, told : FlagLevels \cup {"none"}]

ASSUME CreditFlagsAssumption ==
    /\ Positions \subseteq Position
    /\ Calm \in Positions /\ NoFlag \notin Flag
    /\ MaxHolds \in Nat \ {0} /\ MaxFlagFaults \in Nat

VARIABLES
    flag,          \* the live row of customer_flags of each customer
    passing,       \* where the pass stands
    ledger,        \* what it read of canon_ar_flat, promises and the ladder
    before,        \* the flags it may clear: live when it began, not overridden
    todo_flags,    \* customers it has still to assess or to clear
    changed,       \* flags it raised or upgraded: what it may ask about
    emitted,       \* events of its open transaction
    stirred,       \* customers a person has acted on since it began (history; all if none runs)
    flagFaults     \* bound only

pass     == <<passing, ledger, before, todo_flags, changed, emitted>>
flagVars == <<flag, pass, stirred, flagFaults>>

Event == [customer : FlagCustomers, level : FlagLevels]

FlagsTypeOK ==
    /\ flag \in [FlagCustomers -> Flag \cup {NoFlag}]
    /\ passing \in {"idle", "raise", "ask", "clear"}
    /\ ledger \in [FlagCustomers -> Positions]
    /\ before \subseteq FlagCustomers
    /\ todo_flags \subseteq FlagCustomers
    /\ changed \subseteq Event
    /\ emitted \subseteq Event
    /\ stirred \subseteq FlagCustomers
    /\ flagFaults \in 0..MaxFlagFaults

FlagsInit ==
    /\ flag = [c \in FlagCustomers |-> NoFlag]
    /\ passing = "idle"
    /\ ledger = [c \in FlagCustomers |-> Calm]
    /\ before = {} /\ todo_flags = {} /\ changed = {} /\ emitted = {}
    /\ stirred = FlagCustomers
    /\ flagFaults = 0

Live(c)       == flag[c] # NoFlag
Overridden(c) == Live(c) /\ flag[c].overridden
HoldLive(c)   == Live(c) /\ flag[c].level = "hold"

-----------------------------------------------------------------------------
(* assess: the worst fact wins. *)

Holds(p) ==
    \/ p.broken >= 2
    \/ p.broken = 1 /\ p.oldest >= 60
    \/ p.rung >= 4
    \/ p.oldest >= VERY_OLD_DAYS

Watches(p) ==
    \/ p.share >= EXPOSURE_SHARE_PCT
    \/ p.rung >= 2 /\ p.oldest >= 45

\* Only customers who owe something are assessed.
Assess(p) ==
    IF p.owes /\ Holds(p) THEN "hold"
    ELSE IF p.owes /\ Watches(p) THEN "watch" ELSE "none"

-----------------------------------------------------------------------------
(* People. *)

\* POST /flags/clear.
PersonClears(c) ==
    /\ Live(c)
    /\ flag' = [flag EXCEPT ![c] = NoFlag]
    /\ stirred' = stirred \cup {c}
    /\ UNCHANGED <<pass, flagFaults>>

\* POST /flags/override.
Override(c) ==
    /\ Live(c)
    /\ flag' = [flag EXCEPT ![c].overridden = TRUE]
    /\ stirred' = stirred \cup {c}
    /\ UNCHANGED <<pass, flagFaults>>

-----------------------------------------------------------------------------
(* detect_credit_flag. *)

BeginPass ==
    /\ passing = "idle"
    /\ passing' = "raise"
    /\ ledger' \in [FlagCustomers -> Positions]
    /\ before' = {c \in FlagCustomers : Live(c) /\ ~Overridden(c)}
    /\ todo_flags' = {c \in FlagCustomers : ledger'[c].owes}
    /\ changed' = {} /\ stirred' = {}
    /\ UNCHANGED <<flag, emitted, flagFaults>>

\* Slip: a live flag is never upgraded.
Raisable_new(c, level) == level # "none" /\ ~Live(c)

\* raise_flag changes something: a new row, or a watch that becomes a hold.
Raisable(c, level) ==
    /\ level # "none"
    /\ Live(c) => ~flag[c].overridden /\ flag[c].level = "watch" /\ level = "hold"

\* An upgrade keeps the row, and with it the event that went out for it.
Raised(c, level) ==
    [level |-> level, overridden |-> FALSE,
     told |-> IF Live(c) THEN flag[c].told ELSE "none"]

RaiseFlag(c) ==
    LET level == Assess(ledger[c]) IN
    /\ passing = "raise" /\ c \in todo_flags
    /\ todo_flags' = todo_flags \ {c}
    /\ IF Raisable(c, level)
       THEN /\ flag' = [flag EXCEPT ![c] = Raised(c, level)]
            /\ changed' = changed \cup {[customer |-> c, level |-> level]}
       ELSE UNCHANGED <<flag, changed>>
    /\ UNCHANGED <<passing, ledger, before, emitted,
                   stirred, flagFaults>>

\* The head of pending after its sort: as many as may be asked, no watch
\* before a hold.
AskSets ==
    {s \in SUBSET changed :
        /\ Cardinality(s) = IF Cardinality(changed) < MaxHolds
                            THEN Cardinality(changed) ELSE MaxHolds
        /\ \A e \in s, f \in changed \ s : ~(e.level = "watch" /\ f.level = "hold")}

\* The dedupe key is the row's id: one event of a row, ever.
News(s) == {e \in s : Live(e.customer) => flag[e.customer].told = "none"}

\* What is live, not overridden and no longer flaggable comes down.
Clearable == {c \in before : Assess(ledger[c]) = "none"}

AskAbout ==
    /\ passing = "raise" /\ todo_flags = {}
    /\ \E s \in AskSets : emitted' = News(s)
    /\ changed' = {}
    /\ passing' = "clear"
    /\ todo_flags' = Clearable
    /\ UNCHANGED <<flag, ledger, before, stirred, flagFaults>>

\* The transaction ends: the events are there, and the rows they are about
\* have had their event.
Told(c) ==
    LET es == {e \in emitted : e.customer = c} IN
    IF es = {} \/ ~Live(c) THEN flag[c]
    ELSE [flag[c] EXCEPT !.told = (CHOOSE e \in es : TRUE).level]

\* clear: its UPDATE asks for a live row, overridden or not.
AgentClears(c) ==
    /\ passing = "clear" /\ c \in todo_flags
    /\ todo_flags' = todo_flags \ {c}
    /\ emitted' = {}
    /\ flag' = [d \in FlagCustomers |-> IF d = c THEN NoFlag ELSE Told(d)]
    /\ UNCHANGED <<passing, ledger, before, changed, stirred, flagFaults>>

\* Between passes nobody remembers what was read.
Forget_pass == stirred' = FlagCustomers /\ ledger' = [c \in FlagCustomers |-> Calm]

EndPass ==
    /\ passing = "clear" /\ todo_flags = {}
    /\ emitted' = {}
    /\ flag' = [d \in FlagCustomers |-> Told(d)]
    /\ passing' = "idle"
    /\ before' = {} /\ Forget_pass
    /\ UNCHANGED <<todo_flags, changed, flagFaults>>

\* The process dies or loses its connection: what was committed stays.
CutPass ==
    /\ passing # "idle" /\ flagFaults < MaxFlagFaults
    /\ flagFaults' = flagFaults + 1
    /\ passing' = "idle"
    /\ before' = {} /\ changed' = {} /\ emitted' = {} /\ todo_flags' = {}
    /\ Forget_pass
    /\ UNCHANGED flag

-----------------------------------------------------------------------------
Detect ==
    \/ BeginPass \/ AskAbout \/ EndPass
    \/ \E c \in FlagCustomers : RaiseFlag(c) \/ AgentClears(c)

FlagsNext ==
    \/ Detect \/ CutPass
    \/ \E c \in FlagCustomers : PersonClears(c) \/ Override(c)

FlagsSpec == FlagsInit /\ [][FlagsNext]_flagVars

-----------------------------------------------------------------------------
(* Properties. *)

\* flags.py and decisions.md: the flags are complete, only the asks are paced.
\* When a pass ends, whoever it found to deserve a flag has one at least as
\* grave, and whoever it found to deserve none has none, save where a person
\* had a hand in it: before the pass an override, during it anything.
FlagsMatchTheLedger ==
    [][(passing = "clear" /\ passing' = "idle" /\ flagFaults' = flagFaults) =>
          \A c \in FlagCustomers \ stirred :
              \/ Overridden(c)'
              \/ CASE Assess(ledger[c]) = "hold"  -> HoldLive(c)'
                   [] Assess(ledger[c]) = "watch" -> Live(c)'
                   [] OTHER                       -> ~Live(c)']_flagVars

\* flags.py: an overridden flag is left alone.  No step of the detector changes
\* one, except in the pass during which the override was pressed: that one
\* clears by what it read before (detectors.py, F.clear).
OverridesStand ==
    [][\A c \in FlagCustomers :
          (Overridden(c) /\ flag'[c] # flag[c]) =>
              \/ stirred' # stirred
              \/ c \in stirred
              \/ Live(c)' /\ [flag[c] EXCEPT !.told = "none"] = [flag'[c] EXCEPT !.told = "none"]
      ]_flagVars

\* flags.py: a flag is never quietly downgraded; coming down is clearing it.
NoQuietDowngrade ==
    [][\A c \in FlagCustomers : HoldLive(c) => (HoldLive(c)' \/ ~Live(c)')]_flagVars

\* The flags say what the ledger says, and what a person said stands.
FlagsAreKept == FlagsMatchTheLedger /\ OverridesStand /\ NoQuietDowngrade
=============================================================================
