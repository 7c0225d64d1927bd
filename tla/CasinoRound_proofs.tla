-------------------------- MODULE CasinoRound_proofs --------------------------
(***************************************************************************)
(* Two theorems of a room, for any number of bets and any answers of the   *)
(* wallet and the chain: no stake is put at risk twice, and a result is    *)
(* shown once, of a bet that is over.                                      *)
(*                                                                         *)
(* The last submission the wallet was asked for is known to the page, or   *)
(* the placement still runs, or the stepper stands at a state that refuses *)
(* a new one: mined, or failed without confirmation.  What keeps the       *)
(* stepper there is that only a round that is reconciled is reset by what  *)
(* the watcher and the player's own settlements find out.                  *)
(***************************************************************************)
EXTENDS CasinoRound, TLAPS

ChainStates == {"none", "pending", "reverted", "placed", "received", "ready"} \cup Terminal
Fates == {"unknown", "bound", "left", "noticed", "told"}
StepperType ==
    [status : {"idle", "planning", "submitting", "mined", "failed", "reconciled"}, bet : Nat,
     hash : Nat, error : {"none", "other", "unconfirmed", "reverted"}]
PageFields ==
    {"terminal", "latest", "displayed", "pending", "shown", "reveal", "revealed", "outcome"}
WatchFields == {"phase", "bet", "seen", "ripe", "known", "stopped", "terminal"}

TypeInv ==
    /\ chain \in [Bets -> ChainStates] /\ fate \in [Bets -> Fates] /\ asked \in 0..MaxBets
    /\ stepper \in StepperType /\ run \in {"none", "plan", "approve", "place", "wallet", "receipt"}
    /\ checking \in BOOLEAN
    /\ DOMAIN page = PageFields /\ DOMAIN watch = WatchFields

\* The stepper says how far the placement is.
StepInv ==
    /\ run = "plan" => stepper.status = "planning"
    /\ run \in {"approve", "place", "wallet", "receipt"} => stepper.status = "submitting"
    /\ run # "none" => stepper.hash = NoBet /\ stepper.error = "none"
    /\ stepper.hash \in {NoBet, asked}
    /\ checking => stepper.status = "mined" /\ stepper.hash # NoBet /\ stepper.error = "none"
    /\ stepper.status = "reconciled" => stepper.error = "none"

\* Outside a reconciled round there is nothing to watch and no bet to resolve.
RoundInv ==
    stepper.status # "reconciled" =>
        watch.bet = NoBet /\ poll = NoPoll /\ page.terminal \in {NoBet, page.latest}

Accounted(n) == chain[n] \in {"none", "reverted"} \/ fate[n] # "unknown"
Refusing == stepper.status = "mined" \/ (stepper.status = "failed" /\ stepper.error = "unconfirmed")

StakeInv ==
    /\ run \in {"plan", "approve", "place"} => asked < MaxBets
    /\ run \in {"wallet", "receipt"} => asked > 0
    /\ \A n \in Bets : n > asked => chain[n] = "none"
    /\ run = "wallet" => chain[asked] = "none"
    /\ \A n \in Bets : n < asked => Accounted(n)
    /\ asked > 0 /\ run \notin {"wallet", "receipt"} => Accounted(asked) \/ (run = "none" /\ Refusing)

RoomInv == TypeInv /\ StepInv /\ RoundInv /\ StakeInv

-----------------------------------------------------------------------------
LEMMA IdleStepperType ==
  IdleStepper \in StepperType /\ IdleStepper.status = "idle" /\ IdleStepper.hash = NoBet
     /\ IdleStepper.error = "none"
BY DEF IdleStepper, StepperType, NoBet

LEMMA RoomInit == Init => RoomInv
<1> SUFFICES ASSUME Init PROVE RoomInv
  OBVIOUS
<1>1. TypeInv
  <2>1. DOMAIN page = PageFields /\ DOMAIN watch = WatchFields
    BY DEF Init, PageFields, WatchFields
  <2>2. /\ chain \in [Bets -> ChainStates] /\ fate \in [Bets -> Fates] /\ asked \in 0..MaxBets
        /\ run = "none" /\ checking = FALSE
    BY BoundsAssumption DEF Init, ChainStates, Fates
  <2> QED BY <2>1, <2>2, IdleStepperType DEF TypeInv, Init
<1>2. StepInv
  BY IdleStepperType DEF Init, StepInv
<1>3. RoundInv
  BY DEF Init, RoundInv
<1>4. StakeInv
  BY DEF Init, StakeInv, Bets
<1> QED BY <1>1, <1>2, <1>3, <1>4 DEF RoomInv

LEMMA PageTable ==
  ASSUME NEW p, DOMAIN p = PageFields
  PROVE  /\ DOMAIN RoundStart(p) = PageFields /\ RoundStart(p).terminal = NoBet
         /\ DOMAIN RoundReset(p) = PageFields /\ RoundReset(p).terminal = NoBet
         /\ DOMAIN ResultClose(p) = PageFields /\ ResultClose(p).terminal = p.terminal
         /\ ResultClose(p).latest = p.latest
<1>1. DOMAIN RoundStart(p) = PageFields /\ RoundStart(p).terminal = NoBet
  BY DEF RoundStart, PageFields
<1>2. DOMAIN RoundReset(p) = PageFields /\ RoundReset(p).terminal = NoBet
  BY <1>1 DEF RoundReset, PageFields
<1>3. /\ DOMAIN ResultClose(p) = PageFields /\ ResultClose(p).terminal = p.terminal
      /\ ResultClose(p).latest = p.latest
  BY DEF ResultClose, PageFields
<1> QED BY <1>1, <1>2, <1>3

LEMMA WatchTable ==
  ASSUME NEW w, DOMAIN w = WatchFields
  PROVE  DOMAIN Idle(w) = WatchFields /\ Idle(w).bet = NoBet
BY DEF Idle, WatchFields

\* Steps elsewhere: what did not happen or reverted stays so, what is known stays known,
\* and only a reconciled round is reset.
LEMMA Elsewhere ==
  ASSUME RoomInv, UNCHANGED <<run, asked, checking>>,
         chain' \in [Bets -> ChainStates],
         \A n \in Bets : chain[n] \in {"none", "reverted"} => chain'[n] = chain[n],
         fate' \in [Bets -> Fates],
         \A n \in Bets : fate[n] # "unknown" => fate'[n] # "unknown",
         stepper' = stepper \/ (stepper.status = "reconciled" /\ stepper' = IdleStepper)
  PROVE  StepInv' /\ StakeInv' /\ stepper' \in StepperType
<1>1. /\ Refusing' <=> Refusing
      /\ StepInv' /\ stepper' \in StepperType
  <2>1. CASE stepper' = stepper
    BY <2>1 DEF Refusing, RoomInv, TypeInv, StepInv
  <2>2. CASE stepper.status = "reconciled" /\ stepper' = IdleStepper
    <3>1. run = "none" /\ ~checking /\ ~Refusing
      BY <2>2 DEF RoomInv, StepInv, TypeInv, Refusing
    <3>2. ~Refusing'
      BY <2>2, IdleStepperType DEF Refusing
    <3>3. StepInv'
      BY <2>2, <3>1, IdleStepperType DEF StepInv
    <3> QED BY <2>2, <3>1, <3>2, <3>3, IdleStepperType
  <2> QED BY <2>1, <2>2
<1>2. \A n \in Bets : Accounted(n) => Accounted(n)'
  BY DEF Accounted
<1>3. asked > 0 => asked \in Bets
  BY BoundsAssumption DEF RoomInv, TypeInv, Bets
<1>4. StakeInv'
  BY <1>1, <1>2, <1>3 DEF RoomInv, StakeInv
<1> QED BY <1>1, <1>4

\* The effects after a handler: only a reconciled round is reset.
LEMMA CommitKeeps ==
  ASSUME RoomInv, NEW p, NEW w, NEW q, Commit(p, w, q), DOMAIN p = PageFields, DOMAIN w = WatchFields,
         stepper.status # "reconciled" =>
             w.bet = NoBet /\ q = NoPoll /\ p.terminal \in {NoBet, p.latest}
  PROVE  /\ DOMAIN page' = PageFields /\ DOMAIN watch' = WatchFields
         /\ RoundInv'
         /\ fate' \in [Bets -> Fates]
         /\ \A n \in Bets : fate[n] # "unknown" => fate'[n] # "unknown"
         /\ stepper' = stepper \/ (stepper.status = "reconciled" /\ stepper' = IdleStepper)
<1>0. fate \in [Bets -> Fates]
  BY DEF RoomInv, TypeInv
<1>1. CASE w.phase = "result_unbooked" /\ w.bet # NoBet
  <2>1. /\ fate' = [fate EXCEPT ![w.bet] = "noticed"] /\ page' = RoundReset(p)
        /\ stepper' = IdleStepper /\ watch' = Idle(w) /\ poll' = NoPoll
    BY <1>1 DEF Commit
  <2>2. /\ DOMAIN page' = PageFields /\ page'.terminal = NoBet
        /\ DOMAIN watch' = WatchFields /\ watch'.bet = NoBet
    BY <2>1, PageTable, WatchTable
  <2>3. fate' \in [Bets -> Fates] /\ \A n \in Bets : fate[n] # "unknown" => fate'[n] # "unknown"
    BY <1>0, <2>1 DEF Fates
  <2> QED BY <1>1, <2>1, <2>2, <2>3 DEF RoundInv
<1>2. CASE ~(w.phase = "result_unbooked" /\ w.bet # NoBet) /\ Arrives(p)
  <2>1. /\ page' = [p EXCEPT !.latest = Resolving(p), !.displayed = NoBet, !.pending = TRUE]
        /\ stepper' = IdleStepper /\ watch' = Idle(w) /\ poll' = NoPoll /\ UNCHANGED fate
    BY <1>2 DEF Commit
  <2>2. Resolving(p) = p.terminal /\ p.terminal \notin {NoBet, p.latest}
    BY <1>2 DEF Arrives, Resolving
  <2>3. /\ DOMAIN page' = PageFields /\ page'.terminal = page'.latest
        /\ DOMAIN watch' = WatchFields /\ watch'.bet = NoBet
    BY <2>1, <2>2, WatchTable DEF PageFields
  <2> QED BY <1>0, <2>1, <2>2, <2>3 DEF RoundInv
<1>3. CASE ~(w.phase = "result_unbooked" /\ w.bet # NoBet) /\ ~Arrives(p)
  <2>1. page' = p /\ watch' = w /\ poll' = q /\ UNCHANGED <<stepper, fate>>
    BY <1>3 DEF Commit
  <2> QED BY <1>0, <2>1 DEF RoundInv
<1> QED BY <1>1, <1>2, <1>3


-----------------------------------------------------------------------------
(* The chain, and the handlers that end in the effects of the page.        *)

LEMMA ChainKeeps ==
  ASSUME RoomInv, NEW b \in Bets, Advance(b) \/ DeadlineOver(b)
  PROVE  RoomInv'
<1>1. UNCHANGED <<run, asked, stepper, watch, poll, checking, page, fate>>
  BY DEF Advance, DeadlineOver, stepVars
<1>2. /\ chain' \in [Bets -> ChainStates]
      /\ \A n \in Bets : chain[n] \in {"none", "reverted"} => chain'[n] = chain[n]
  <2>1. CASE DeadlineOver(b)
    BY <2>1 DEF DeadlineOver, RoomInv, TypeInv
  <2>2. CASE Advance(b)
    <3>1. PICK s \in After(b) : chain' = [chain EXCEPT ![b] = s]
      BY <2>2 DEF Advance
    <3>2. s \in ChainStates /\ chain[b] \notin {"none", "reverted"}
      BY DEF After, Ends, ChainStates, Terminal
    <3> QED BY <3>1, <3>2 DEF RoomInv, TypeInv
  <2> QED BY <2>1, <2>2
<1>3. StepInv' /\ StakeInv'
  BY <1>1, <1>2, Elsewhere DEF RoomInv, TypeInv
<1> QED BY <1>1, <1>2, <1>3 DEF RoomInv, TypeInv, RoundInv

\* A handler that leaves page p, snapshot w and poll q to the effects.
LEMMA HandlerKeeps ==
  ASSUME RoomInv, NEW p, NEW w, NEW q, Commit(p, w, q), DOMAIN p = PageFields, DOMAIN w = WatchFields,
         stepper.status # "reconciled" =>
             w.bet = NoBet /\ q = NoPoll /\ p.terminal \in {NoBet, p.latest},
         UNCHANGED <<run, asked, checking>>, chain' \in [Bets -> ChainStates],
         \A n \in Bets : chain[n] \in {"none", "reverted"} => chain'[n] = chain[n]
  PROVE  RoomInv'
<1>1. /\ DOMAIN page' = PageFields /\ DOMAIN watch' = WatchFields
      /\ RoundInv'
      /\ fate' \in [Bets -> Fates]
      /\ \A n \in Bets : fate[n] # "unknown" => fate'[n] # "unknown"
      /\ stepper' = stepper \/ (stepper.status = "reconciled" /\ stepper' = IdleStepper)
  BY CommitKeeps
<1>2. StepInv' /\ StakeInv' /\ stepper' \in StepperType
  BY <1>1, Elsewhere
<1> QED BY <1>1, <1>2 DEF RoomInv, TypeInv

LEMMA RoundFields ==
  ASSUME RoomInv
  PROVE  /\ DOMAIN page = PageFields /\ DOMAIN watch = WatchFields
         /\ stepper.status # "reconciled" =>
                watch.bet = NoBet /\ poll = NoPoll /\ page.terminal \in {NoBet, page.latest}
         /\ chain \in [Bets -> ChainStates] /\ fate \in [Bets -> Fates]
BY DEF RoomInv, TypeInv, RoundInv

LEMMA SettleAnswerKeeps ==
  ASSUME RoomInv, NEW b \in Bets, SettleAnswer(b)
  PROVE  RoomInv'
<1>1. UNCHANGED <<run, asked, checking>>
  BY DEF SettleAnswer
<1>2. /\ chain' \in [Bets -> ChainStates]
      /\ \A n \in Bets : chain[n] \in {"none", "reverted"} => chain'[n] = chain[n]
  BY RoundFields DEF SettleAnswer, ChainStates, Terminal
<1>3. PICK w : Commit(page, w, poll) /\ DOMAIN w = WatchFields /\ w.bet = watch.bet
  <2> DEFINE w1 == [watch EXCEPT !.phase = "settling"]
             w2 == [watch EXCEPT !.phase = "result_unbooked", !.known = [Own(b) EXCEPT !.reverted = TRUE]]
             w3 == [watch EXCEPT !.phase = "manual_settle_offered"]
  <2>1. \A w \in {w1, w2, w3} : DOMAIN w = WatchFields /\ w.bet = watch.bet
    BY RoundFields DEF WatchFields
  <2>2. Commit(page, w1, poll) \/ Commit(page, w2, poll) \/ Commit(page, w3, poll)
    BY Zenon DEF SettleAnswer
  <2> HIDE DEF w1, w2, w3
  <2> QED BY <2>1, <2>2
<1> QED BY <1>1, <1>2, <1>3, RoundFields, HandlerKeeps

LEMMA RefundAnswerKeeps ==
  ASSUME RoomInv, NEW b \in Bets, RefundAnswer(b)
  PROVE  RoomInv'
<1>1. UNCHANGED <<run, asked, checking>>
  BY DEF RefundAnswer
<1>2. /\ chain' \in [Bets -> ChainStates]
      /\ \A n \in Bets : chain[n] \in {"none", "reverted"} => chain'[n] = chain[n]
  BY RoundFields DEF RefundAnswer, ChainStates, Terminal
<1>3. PICK w : Commit(page, w, poll) /\ DOMAIN w = WatchFields /\ w.bet = watch.bet
  <2> DEFINE w1 == [watch EXCEPT !.phase = "refundable"]
             w2 == [watch EXCEPT !.phase = "result_unbooked", !.known = [Own(b) EXCEPT !.result = "received"]]
  <2>1. \A w \in {w1, w2} : DOMAIN w = WatchFields /\ w.bet = watch.bet
    BY RoundFields DEF WatchFields
  <2>2. Commit(page, w1, poll) \/ Commit(page, w2, poll)
    BY Zenon DEF RefundAnswer
  <2> HIDE DEF w1, w2
  <2> QED BY <2>1, <2>2
<1> QED BY <1>1, <1>2, <1>3, RoundFields, HandlerKeeps

\* A read belongs to a reconciled round: it may leave any page and snapshot.
LEMMA SnapshotKeeps ==
  ASSUME RoomInv, poll # NoPoll, UNCHANGED chain, NEW seen, NEW known, Snapshot(seen, known)
  PROVE  RoomInv'
<1>1. stepper.status = "reconciled"
  BY RoundFields
<1>2. PICK p, w : Commit(p, w, NoPoll) /\ DOMAIN p = PageFields /\ DOMAIN w = WatchFields
  <2> DEFINE b == poll.bet
             over == seen \in Terminal /\ watch.terminal # b
             p == [page EXCEPT
                     !.terminal = IF over THEN b ELSE @,
                     !.pending = @ /\ ~over,
                     !.outcome = IF seen = "ready" /\ page.terminal = NoBet /\ page.revealed # b
                                 THEN b ELSE @]
             w(ripe) == [watch EXCEPT !.phase = Phase(b, seen, known, ripe), !.bet = b, !.seen = seen,
                                      !.ripe = ripe, !.known = known, !.stopped = @ \/ over,
                                      !.terminal = IF over THEN b ELSE @]
  <2>1. DOMAIN p = PageFields
    BY RoundFields, Zenon
  <2>2. \A ripe : DOMAIN w(ripe) = WatchFields
    BY RoundFields, Zenon
  <2>3. \E ripe : Commit(p, w(ripe), NoPoll)
    BY Zenon DEF Snapshot
  <2> HIDE DEF p, w
  <2> QED BY <2>1, <2>2, <2>3
<1>3. UNCHANGED <<run, asked, checking>>
  BY DEF Snapshot
<1> QED BY <1>1, <1>2, <1>3, RoundFields, HandlerKeeps

LEMMA RevealKeeps ==
  ASSUME RoomInv, OutcomeAnswer \/ RevealEnds
  PROVE  RoomInv'
<1>1. UNCHANGED <<chain, run, asked, checking>>
  BY DEF OutcomeAnswer, RevealEnds
<1>2. PICK p : /\ Commit(p, watch, poll)
               /\ DOMAIN p = PageFields /\ p.terminal = page.terminal /\ p.latest = page.latest
  <2> DEFINE p1 == [page EXCEPT !.outcome = NoBet]
             p2(phase) == [page EXCEPT !.outcome = NoBet, !.revealed = page.outcome, !.pending = FALSE,
                                       !.reveal = [bet |-> page.outcome, phase |-> phase]]
             p3 == [page EXCEPT !.reveal.phase = "revealed"]
             Same(p) == DOMAIN p = PageFields /\ p.terminal = page.terminal /\ p.latest = page.latest
  <2>1. Same(p1)
    BY RoundFields DEF PageFields
  <2>2. \A phase : Same(p2(phase))
    BY RoundFields DEF PageFields
  <2>3. Same(p3)
    BY RoundFields DEF PageFields
  <2>4. Commit(p1, watch, poll) \/ (\E phase : Commit(p2(phase), watch, poll)) \/ Commit(p3, watch, poll)
    BY Zenon DEF OutcomeAnswer, RevealEnds
  <2> HIDE DEF p1, p2, p3
  <2> QED BY <2>1, <2>2, <2>3, <2>4
<1> QED BY <1>1, <1>2, RoundFields, HandlerKeeps

-----------------------------------------------------------------------------
(* The placement.                                                          *)

LEMMA StepperFacts ==
  ASSUME RoomInv
  PROVE  /\ stepper \in StepperType /\ stepper.hash \in {NoBet, asked}
         /\ asked \in 0..MaxBets /\ asked \in Nat
         /\ run \in {"none", "plan", "approve", "place", "wallet", "receipt"}
         /\ run # "none" => /\ stepper.status \in {"planning", "submitting"}
                            /\ stepper.hash = NoBet /\ stepper.error = "none" /\ ~checking
         /\ checking => stepper.status = "mined" /\ stepper.hash # NoBet /\ stepper.error = "none"
         /\ stepper.status = "reconciled" => stepper.error = "none"
         /\ checking \in BOOLEAN
         /\ asked > 0 => asked \in Bets
BY BoundsAssumption DEF RoomInv, TypeInv, StepInv, Bets

LEMMA DispatchKeeps ==
  ASSUME RoomInv, NEW s, Dispatch(s), DOMAIN page' = PageFields,
         page'.terminal = NoBet \/ (page' = page /\ stepper.status # "reconciled")
  PROVE  stepper' = s /\ DOMAIN watch' = WatchFields /\ RoundInv'
<1>1. stepper' = s
  BY DEF Dispatch
<1>2. CASE s.status = "reconciled"
  <2>1. watch' = [watch EXCEPT !.known = Unread(s.bet), !.stopped = FALSE]
    BY <1>2 DEF Dispatch
  <2>2. DOMAIN watch' = WatchFields
    BY <2>1, RoundFields DEF WatchFields
  <2> QED BY <1>1, <1>2, <2>2 DEF RoundInv
<1>3. CASE s.status # "reconciled" /\ stepper.status = "reconciled"
  <2>1. watch' = Idle(watch) /\ poll' = NoPoll /\ page'.terminal = NoBet
    BY <1>3 DEF Dispatch
  <2> QED BY <1>1, <2>1, RoundFields, WatchTable DEF RoundInv
<1>4. CASE s.status # "reconciled" /\ stepper.status # "reconciled"
  <2>1. UNCHANGED <<watch, poll>>
    BY <1>4 DEF Dispatch
  <2> QED BY <1>1, <1>4, <2>1, RoundFields DEF RoundInv
<1> QED BY <1>1, <1>2, <1>3, <1>4

LEMMA PlaceBetKeeps ==
  ASSUME RoomInv, NEW p, PlaceBet(p), DOMAIN p = PageFields, p = page \/ p.terminal = NoBet
  PROVE  RoomInv'
<1>1. run = "none" /\ stepper.status \notin {"planning", "submitting", "mined"}
      /\ stepper.error # "unconfirmed" /\ UNCHANGED <<chain, asked, checking>>
  BY DEF PlaceBet, Busy, Unconfirmed
<1>2. ~checking /\ (asked > 0 => Accounted(asked))
  BY <1>1 DEF RoomInv, StepInv, StakeInv, Refusing
<1>3. CASE stepper.status = "reconciled"
  <2>1. /\ Dispatch(IdleStepper) /\ page' = RoundReset(p) /\ UNCHANGED run
        /\ fate' = [fate EXCEPT ![stepper.bet] = IF @ = "bound" THEN "left" ELSE @]
    BY <1>3 DEF PlaceBet
  <2>2. DOMAIN page' = PageFields /\ page'.terminal = NoBet
    BY <2>1, PageTable
  <2>3. stepper' = IdleStepper /\ DOMAIN watch' = WatchFields /\ RoundInv'
    BY <2>1, <2>2, DispatchKeeps
  <2>4. /\ fate' \in [Bets -> Fates]
        /\ \A n \in Bets : fate[n] # "unknown" => fate'[n] # "unknown"
    BY <2>1, RoundFields DEF Fates
  <2>5. StepInv' /\ StakeInv' /\ stepper' \in StepperType
    BY <1>1, <1>3, <2>1, <2>3, <2>4, RoundFields, Elsewhere
  <2> QED BY <1>1, <2>1, <2>2, <2>3, <2>4, <2>5 DEF RoomInv, TypeInv
<1>4. CASE stepper.status # "reconciled"
  <2> DEFINE s == [IdleStepper EXCEPT !.status = "planning"]
  <2>1. /\ Dispatch(s) /\ run' = "plan" /\ asked < MaxBets /\ UNCHANGED fate
        /\ page' = RoundReset(p) \/ page' = p
    BY <1>4 DEF PlaceBet
  <2>2. s \in StepperType /\ s.status = "planning" /\ s.hash = NoBet /\ s.error = "none"
    BY IdleStepperType DEF StepperType
  <2> HIDE DEF s
  <2>3. DOMAIN page' = PageFields /\ (page' = page \/ page'.terminal = NoBet)
    BY <2>1, PageTable
  <2>4. stepper' = s /\ DOMAIN watch' = WatchFields /\ RoundInv'
    BY <1>4, <2>1, <2>3, DispatchKeeps
  <2>5. StepInv'
    BY <1>1, <1>2, <2>1, <2>2, <2>4 DEF StepInv
  <2>6. StakeInv'
    BY <1>1, <1>2, <2>1 DEF RoomInv, StakeInv, Accounted
  <2> QED BY <1>1, <2>1, <2>2, <2>3, <2>4, <2>5, <2>6 DEF RoomInv, TypeInv
<1> QED BY <1>3, <1>4

LEMMA ClickKeeps ==
  ASSUME RoomInv, ClickPlace \/ PlayAgain
  PROVE  RoomInv'
<1>1. CASE ClickPlace
  BY <1>1, RoundFields, PlaceBetKeeps DEF ClickPlace
<1>2. CASE PlayAgain
  BY <1>2, RoundFields, PageTable, PlaceBetKeeps DEF PlayAgain
<1> QED BY <1>1, <1>2

\* The placement ends: its submission, if there was one, is accounted for or refuses others.
LEMMA EndRunKeeps ==
  ASSUME RoomInv, run # "none", NEW s \in StepperType, s.hash \in {NoBet, asked}, EndRun(s),
         s.status = "reconciled" => s.error = "none",
         chain' \in [Bets -> ChainStates], \A n \in Bets \ {asked} : chain'[n] = chain[n],
         asked > 0 => Accounted(asked)' \/ Refusing'
  PROVE  RoomInv'
<1>1. /\ Dispatch(s) /\ run' = "none" /\ UNCHANGED <<asked, checking, page>>
      /\ fate' = IF s.status = "reconciled" THEN [fate EXCEPT ![s.bet] = "bound"] ELSE fate
  BY DEF EndRun
<1>2. stepper.status # "reconciled" /\ ~checking
  BY StepperFacts
<1>3. stepper' = s /\ DOMAIN watch' = WatchFields /\ RoundInv'
  BY <1>1, <1>2, RoundFields, DispatchKeeps
<1>4. /\ fate' \in [Bets -> Fates]
      /\ \A n \in Bets : fate[n] # "unknown" => fate'[n] # "unknown"
  BY <1>1, RoundFields DEF Fates
<1>5. StepInv'
  BY <1>1, <1>2, <1>3 DEF StepInv
<1>6. \A n \in Bets : n < asked => Accounted(n)'
  <2> SUFFICES ASSUME NEW n \in Bets, n < asked PROVE Accounted(n)'
    OBVIOUS
  <2>1. n # asked /\ Accounted(n)
    BY StepperFacts DEF RoomInv, StakeInv, Bets
  <2> QED BY <1>4, <2>1 DEF Accounted
<1>7. \A n \in Bets : n > asked => chain'[n] = "none"
  BY StepperFacts DEF RoomInv, StakeInv, Bets
<1>8. StakeInv'
  BY <1>1, <1>6, <1>7 DEF StakeInv
<1> QED BY <1>1, <1>3, <1>4, <1>5, <1>8, RoundFields, StepperFacts DEF RoomInv, TypeInv

LEMMA FailedType ==
  ASSUME RoomInv, NEW error \in {"none", "other", "unconfirmed", "reverted"}
  PROVE  /\ Failed(error) \in StepperType /\ Failed(error).status = "failed"
         /\ Failed(error).error = error /\ Failed(error).hash = stepper.hash
BY StepperFacts DEF Failed, StepperType

\* Before the wallet is asked, the last submission is accounted for.
LEMMA EarlyEndKeeps ==
  ASSUME RoomInv, run \in {"plan", "approve", "place"}, UNCHANGED chain, NEW s, EndRun(s),
         s = IdleStepper \/ \E error \in {"other", "unconfirmed"} : s = Failed(error)
  PROVE  RoomInv'
<1>1. s \in StepperType /\ s.hash \in {NoBet, asked}
  BY IdleStepperType, FailedType, StepperFacts
<1>2. s.status # "reconciled"
  BY IdleStepperType, FailedType
<1>3. UNCHANGED <<asked, fate>>
  BY <1>2 DEF EndRun
<1>4. asked > 0 => Accounted(asked)'
  BY <1>3 DEF RoomInv, StakeInv, Accounted
<1>5. run # "none" /\ chain' \in [Bets -> ChainStates] /\ \A n \in Bets \ {asked} : chain'[n] = chain[n]
  BY RoundFields
<1> QED BY <1>1, <1>2, <1>4, <1>5, EndRunKeeps

LEMMA PlanKeeps ==
  ASSUME RoomInv, PlanAnswer
  PROVE  RoomInv'
<1>1. CASE EndRun(Failed("other")) \/ EndRun(IdleStepper)
  BY <1>1, EarlyEndKeeps DEF PlanAnswer
<1>2. CASE ~(EndRun(Failed("other")) \/ EndRun(IdleStepper))
  <2> DEFINE s == [stepper EXCEPT !.status = "submitting"]
  <2>1. /\ Dispatch(s) /\ page' = RoundStart(page) /\ run' \in {"approve", "place"} /\ run = "plan"
        /\ UNCHANGED <<chain, asked, checking, fate>>
    BY <1>2 DEF PlanAnswer
  <2>2. s \in StepperType /\ s.status = "submitting" /\ s.hash = NoBet /\ s.error = "none"
    BY <2>1, StepperFacts DEF StepperType
  <2> HIDE DEF s
  <2>3. DOMAIN page' = PageFields /\ page'.terminal = NoBet
    BY <2>1, RoundFields, PageTable
  <2>4. stepper' = s /\ DOMAIN watch' = WatchFields /\ RoundInv'
    BY <2>1, <2>3, DispatchKeeps
  <2>5. StepInv'
    BY <2>1, <2>2, <2>4, StepperFacts DEF StepInv
  <2>6. StakeInv'
    BY <2>1 DEF RoomInv, StakeInv, Accounted
  <2> QED BY <2>1, <2>2, <2>3, <2>4, <2>5, <2>6 DEF RoomInv, TypeInv
<1> QED BY <1>1, <1>2

LEMMA ApproveKeeps ==
  ASSUME RoomInv, ApproveAnswer
  PROVE  RoomInv'
<1>1. CASE \E error \in {"other", "unconfirmed"} : EndRun(Failed(error))
  BY <1>1, EarlyEndKeeps DEF ApproveAnswer
<1>2. CASE run' = "place" /\ UNCHANGED <<late, asked, stepVars, checking, manual, page, fate>>
  <2>1. run = "approve" /\ run' = "place" /\ UNCHANGED <<chain, asked, stepper, watch, poll, checking, page, fate>>
    BY <1>2 DEF ApproveAnswer, stepVars
  <2>2. StepInv' /\ StakeInv'
    BY <2>1 DEF RoomInv, StepInv, StakeInv, Accounted
  <2> QED BY <2>1, <2>2 DEF RoomInv, TypeInv, RoundInv
<1> QED BY <1>1, <1>2 DEF ApproveAnswer

LEMMA SimulateKeeps ==
  ASSUME RoomInv, Simulate
  PROVE  RoomInv'
<1>1. CASE EndRun(Failed("other"))
  BY <1>1, EarlyEndKeeps DEF Simulate
<1>2. CASE ~EndRun(Failed("other"))
  <2>1. /\ run = "place" /\ run' = "wallet" /\ asked' = asked + 1
        /\ UNCHANGED <<chain, stepper, watch, poll, checking, page, fate>>
    BY <1>2 DEF Simulate, stepVars
  <2>2. asked < MaxBets /\ asked' \in 0..MaxBets /\ asked' \in Bets
    BY <2>1, StepperFacts, BoundsAssumption DEF RoomInv, StakeInv, Bets
  <2>3. StepInv'
    BY <2>1, StepperFacts DEF RoomInv, StepInv
  <2>4. asked > 0 => Accounted(asked)
    BY <2>1 DEF RoomInv, StakeInv
  <2>5. \A n \in Bets : n < asked' => Accounted(n)'
    <3> SUFFICES ASSUME NEW n \in Bets, n < asked' PROVE Accounted(n)'
      OBVIOUS
    <3>1. n < asked \/ (n = asked /\ asked > 0)
      BY <2>1, StepperFacts DEF Bets
    <3>2. Accounted(n)
      BY <2>4, <3>1 DEF RoomInv, StakeInv
    <3> QED BY <2>1, <3>2 DEF Accounted
  <2>6. \A n \in Bets : n > asked => chain[n] = "none"
    BY DEF RoomInv, StakeInv
  <2>7. StakeInv'
    BY <2>1, <2>2, <2>5, <2>6, StepperFacts DEF StakeInv, Bets
  <2> QED BY <2>1, <2>2, <2>3, <2>7 DEF RoomInv, TypeInv, RoundInv
<1> QED BY <1>1, <1>2

LEMMA WalletKeeps ==
  ASSUME RoomInv, WalletAnswer
  PROVE  RoomInv'
<1>0. run = "wallet" /\ chain[asked] = "none" /\ asked \in Bets
  BY StepperFacts DEF WalletAnswer, RoomInv, StakeInv
<1>1. CASE UNCHANGED chain /\ EndRun(Failed("other"))
  <2>1. Accounted(asked)'
    BY <1>0, <1>1 DEF Accounted, EndRun
  <2> QED BY <1>0, <1>1, <2>1, FailedType, StepperFacts, RoundFields, EndRunKeeps
<1>2. ASSUME NEW s \in {"none", "pending"}, chain' = [chain EXCEPT ![asked] = s],
             EndRun(Failed("unconfirmed"))
      PROVE  RoomInv'
  <2>1. chain' \in [Bets -> ChainStates] /\ \A n \in Bets \ {asked} : chain'[n] = chain[n]
    BY <1>2, RoundFields DEF ChainStates
  <2>2. Refusing'
    BY <1>2, FailedType DEF Refusing, EndRun, Dispatch
  <2> QED BY <1>0, <1>2, <2>1, <2>2, FailedType, StepperFacts, EndRunKeeps
<1>3. CASE /\ chain' = [chain EXCEPT ![asked] = "pending"] /\ run' = "receipt"
           /\ UNCHANGED <<late, asked, stepVars, checking, manual, page, fate>>
  <2>1. /\ run' = "receipt" /\ UNCHANGED <<asked, stepper, watch, poll, checking, page, fate>>
        /\ chain' \in [Bets -> ChainStates] /\ \A n \in Bets \ {asked} : chain'[n] = chain[n]
    BY <1>3, RoundFields DEF ChainStates, stepVars
  <2>2. StepInv'
    BY <1>0, <2>1 DEF RoomInv, StepInv
  <2>3. \A n \in Bets : n < asked => Accounted(n)'
    BY <2>1, StepperFacts DEF RoomInv, StakeInv, Accounted, Bets
  <2>4. \A n \in Bets : n > asked => chain'[n] = "none"
    BY <2>1, StepperFacts DEF RoomInv, StakeInv, Bets
  <2>5. StakeInv'
    BY <1>0, <2>1, <2>3, <2>4 DEF RoomInv, StakeInv
  <2> QED BY <2>1, <2>2, <2>5 DEF RoomInv, TypeInv, RoundInv
<1> QED BY <1>1, <1>2, <1>3 DEF WalletAnswer

LEMMA BoundType ==
  ASSUME RoomInv, NEW b \in Nat
  PROVE  /\ Bound(b) \in StepperType /\ Bound(b).status = "reconciled"
         /\ Bound(b).bet = b /\ Bound(b).hash = b /\ Bound(b).error = stepper.error
BY StepperFacts DEF Bound, StepperType

LEMMA ReceiptKeeps ==
  ASSUME RoomInv, ReceiptAnswer
  PROVE  RoomInv'
<1>0. run = "receipt" /\ asked \in Bets /\ asked \in Nat /\ UNCHANGED chain
  BY StepperFacts DEF ReceiptAnswer, RoomInv, StakeInv
<1>1. ASSUME NEW error \in {"unconfirmed", "reverted"},
             EndRun([Failed(error) EXCEPT !.hash = asked]),
             error = "reverted" => chain[asked] = "reverted"
      PROVE  RoomInv'
  <2> DEFINE s == [Failed(error) EXCEPT !.hash = asked]
  <2>1. s \in StepperType /\ s.status = "failed" /\ s.error = error /\ s.hash = asked
    BY <1>0, FailedType DEF StepperType
  <2>2. EndRun(s)
    BY <1>1
  <2> HIDE DEF s
  <2>3. Accounted(asked)' \/ Refusing'
    BY <1>0, <1>1, <2>1, <2>2 DEF Accounted, Refusing, EndRun, Dispatch
  <2> QED BY <1>0, <2>1, <2>2, <2>3, RoundFields, EndRunKeeps
<1>2. CASE EndRun(Bound(asked))
  <2>1. fate' = [fate EXCEPT ![asked] = "bound"]
    BY <1>0, <1>2, BoundType DEF EndRun
  <2>2. Accounted(asked)'
    BY <1>0, <1>2, <2>1, RoundFields DEF Accounted, EndRun
  <2>3. /\ Bound(asked) \in StepperType /\ Bound(asked).hash = asked /\ Bound(asked).error = "none"
        /\ chain' \in [Bets -> ChainStates] /\ \A n \in Bets \ {asked} : chain'[n] = chain[n]
    BY <1>0, BoundType, StepperFacts, RoundFields
  <2> QED BY <1>0, <1>2, <2>2, <2>3, EndRunKeeps
<1>3. CASE EndRun([stepper EXCEPT !.status = "mined", !.hash = asked])
  <2> DEFINE s == [stepper EXCEPT !.status = "mined", !.hash = asked]
  <2>1. s \in StepperType /\ s.status = "mined" /\ s.hash = asked
    BY <1>0, StepperFacts DEF StepperType
  <2>2. EndRun(s)
    BY <1>3
  <2> HIDE DEF s
  <2>3. Refusing'
    BY <2>1, <2>2 DEF Refusing, EndRun, Dispatch
  <2> QED BY <1>0, <2>1, <2>2, <2>3, RoundFields, EndRunKeeps
<1> QED BY <1>1, <1>2, <1>3 DEF ReceiptAnswer

LEMMA CheckTransactionKeeps ==
  ASSUME RoomInv, CheckTransaction
  PROVE  RoomInv'
<1> DEFINE s == [stepper EXCEPT !.status = "mined", !.error = "none"]
<1>1. /\ stepper.hash # NoBet /\ checking' = TRUE /\ Dispatch(s)
      /\ UNCHANGED <<chain, run, asked, page, fate>>
      /\ stepper.status = "mined" \/ stepper.error \in {"unconfirmed", "reverted"}
  BY DEF CheckTransaction
<1>2. s \in StepperType /\ s.status = "mined" /\ s.hash = stepper.hash /\ s.error = "none"
  BY StepperFacts DEF StepperType
<1> HIDE DEF s
<1>3. run = "none"
  BY <1>1, StepperFacts
<1>4. stepper.status # "reconciled"
  BY <1>1, StepperFacts
<1>5. stepper' = s /\ DOMAIN watch' = WatchFields /\ RoundInv'
  BY <1>1, <1>4, RoundFields, DispatchKeeps
<1>6. Refusing'
  BY <1>2, <1>5 DEF Refusing
<1>7. StepInv'
  BY <1>1, <1>2, <1>3, <1>5, StepperFacts DEF StepInv
<1>8. StakeInv'
  BY <1>1, <1>3, <1>6 DEF RoomInv, StakeInv, Accounted
<1> QED BY <1>1, <1>2, <1>5, <1>7, <1>8 DEF RoomInv, TypeInv

LEMMA CheckAnswerKeeps ==
  ASSUME RoomInv, CheckAnswer
  PROVE  RoomInv'
<1>1. /\ run = "none" /\ checking' = FALSE /\ stepper.status = "mined" /\ stepper.hash = asked
      /\ asked \in Bets /\ asked \in Nat /\ stepper.error = "none"
      /\ UNCHANGED <<chain, run, asked, page>>
  BY StepperFacts DEF CheckAnswer, NoBet
<1>2. PICK s \in StepperType :
            /\ Dispatch(s) /\ s.hash = asked /\ (s.status = "reconciled" => s.error = "none")
            /\ fate' = fate \/ fate' = [fate EXCEPT ![asked] = "bound"]
            /\ s.status = "mined" \/ chain[asked] = "reverted" \/ fate' = [fate EXCEPT ![asked] = "bound"]
  <2>1. CASE Dispatch(ReconcileError("other")) /\ UNCHANGED fate
    <3>1. /\ ReconcileError("other") \in StepperType /\ ReconcileError("other").hash = asked
          /\ ReconcileError("other").status = "mined"
      BY <1>1, StepperFacts DEF ReconcileError, StepperType
    <3> QED BY <2>1, <3>1
  <2>2. CASE /\ chain[stepper.hash] = "reverted" /\ Dispatch(ReconcileError("reverted"))
             /\ UNCHANGED fate
    <3>1. /\ ReconcileError("reverted") \in StepperType /\ ReconcileError("reverted").hash = asked
          /\ ReconcileError("reverted").status = "failed"
      BY <1>1, StepperFacts DEF ReconcileError, StepperType
    <3> QED BY <1>1, <2>2, <3>1
  <2>3. CASE Dispatch(Bound(stepper.hash)) /\ fate' = [fate EXCEPT ![stepper.hash] = "bound"]
    BY <1>1, <2>3, BoundType
  <2> QED BY <2>1, <2>2, <2>3 DEF CheckAnswer
<1>3. stepper' = s /\ DOMAIN watch' = WatchFields /\ RoundInv'
  BY <1>1, <1>2, RoundFields, DispatchKeeps
<1>4. /\ fate' \in [Bets -> Fates]
      /\ \A n \in Bets : fate[n] # "unknown" => fate'[n] # "unknown"
  BY <1>2, RoundFields DEF Fates
<1>5. Accounted(asked)' \/ Refusing'
  BY <1>1, <1>2, <1>3, RoundFields DEF Accounted, Refusing
<1>6. StepInv'
  BY <1>1, <1>2, <1>3 DEF StepInv
<1>7. StakeInv'
  BY <1>1, <1>4, <1>5 DEF RoomInv, StakeInv, Accounted
<1> QED BY <1>1, <1>2, <1>3, <1>4, <1>6, <1>7, RoundFields DEF RoomInv, TypeInv

-----------------------------------------------------------------------------
(* The rest of the page and of the watcher.                                *)

LEMMA PageKeeps ==
  ASSUME RoomInv, CloseResult \/ ShowResult
  PROVE  RoomInv'
<1>1. UNCHANGED <<chain, run, asked, stepper, watch, poll, checking>>
  BY DEF CloseResult, ShowResult, stepVars
<1>2. DOMAIN page' = PageFields /\ page'.terminal = page.terminal /\ page'.latest = page.latest
  <2>1. CASE CloseResult
    BY <2>1, RoundFields, PageTable DEF CloseResult
  <2>2. CASE ShowResult
    <3>1. page' = [page EXCEPT !.displayed = Resolving(page), !.pending = FALSE, !.shown = TRUE]
      BY <2>2 DEF ShowResult
    <3> QED BY <3>1, RoundFields DEF PageFields
  <2> QED BY <2>1, <2>2
<1>3. /\ fate' \in [Bets -> Fates]
      /\ \A n \in Bets : fate[n] # "unknown" => fate'[n] # "unknown"
  BY RoundFields DEF CloseResult, ShowResult, Fates
<1>4. StepInv' /\ StakeInv' /\ stepper' \in StepperType
  BY <1>1, <1>3, RoundFields, Elsewhere
<1>5. RoundInv'
  BY <1>1, <1>2 DEF RoomInv, RoundInv
<1> QED BY <1>1, <1>2, <1>3, <1>4, <1>5 DEF RoomInv, TypeInv

\* A poll that starts or fails, and a settlement or refund the player asks for: the
\* snapshot keeps its bet.
LEMMA WatchKeeps ==
  ASSUME RoomInv, UNCHANGED <<chain, run, asked, stepper, checking, page, fate>>,
         DOMAIN watch' = WatchFields,
         stepper.status # "reconciled" => watch'.bet = NoBet /\ poll' = NoPoll
  PROVE  RoomInv'
<1>1. StepInv' /\ StakeInv' /\ stepper' \in StepperType
  BY RoundFields, Elsewhere
<1> QED BY <1>1 DEF RoomInv, TypeInv, RoundInv

LEMMA PollKeeps ==
  ASSUME RoomInv, PollStart \/ PollFail \/ PollBet \/ PollVoid
  PROVE  RoomInv'
<1>1. CASE PollStart
  BY <1>1, RoundFields, WatchKeeps DEF PollStart
<1>2. CASE PollFail
  <2>1. PICK phase : watch' = [watch EXCEPT !.phase = phase]
    BY <1>2 DEF PollFail
  <2>2. DOMAIN watch' = WatchFields
    BY <2>1, RoundFields DEF WatchFields
  <2> QED BY <1>2, <2>2, RoundFields, WatchKeeps DEF PollFail
<1>3. CASE PollBet
  <2>1. poll # NoPoll
    BY <1>3 DEF PollBet, NoPoll
  <2>2. CASE Snapshot(Seen(poll.bet), watch.known) /\ UNCHANGED chain
    BY <2>1, <2>2, SnapshotKeeps
  <2>3. CASE UNCHANGED <<chain, late, run, asked, stepper, checking, watch, manual, page, fate>>
    BY <2>1, <2>3, RoundFields, WatchKeeps
  <2> QED BY <1>3, <2>2, <2>3 DEF PollBet, Snapshot
<1>4. CASE PollVoid
  <2>1. poll # NoPoll
    BY <1>4 DEF PollVoid, NoPoll
  <2>2. PICK known : Snapshot(poll.seen, known)
    BY <1>4, Zenon DEF PollVoid
  <2>3. UNCHANGED chain
    BY <2>2 DEF Snapshot
  <2> QED BY <2>1, <2>2, <2>3, SnapshotKeeps
<1> QED BY <1>1, <1>2, <1>3, <1>4

LEMMA OfferKeeps ==
  ASSUME RoomInv, ClickSettle \/ ClickRefund
  PROVE  RoomInv'
<1>1. PICK phase : watch' = [watch EXCEPT !.phase = phase]
  BY DEF ClickSettle, ClickRefund, Offer
<1>2. DOMAIN watch' = WatchFields /\ watch'.bet = watch.bet
  BY <1>1, RoundFields DEF WatchFields
<1>3. UNCHANGED <<chain, run, asked, stepper, checking, poll, page, fate>>
  BY DEF ClickSettle, ClickRefund, Offer
<1> QED BY <1>2, <1>3, RoundFields, WatchKeeps

LEMMA RoomStep ==
  ASSUME RoomInv, [Next]_vars
  PROVE  RoomInv'
<1>1. CASE UNCHANGED vars
  <2>1. UNCHANGED <<chain, run, asked, stepper, watch, poll, checking, page, fate>>
    BY <1>1 DEF vars, stepVars
  <2>2. DOMAIN watch' = WatchFields /\ (stepper.status # "reconciled" => watch'.bet = NoBet /\ poll' = NoPoll)
    BY <2>1, RoundFields
  <2> QED BY <2>1, <2>2, WatchKeeps
<1>2. CASE Next
  BY <1>2, ChainKeeps, SettleAnswerKeeps, RefundAnswerKeeps, ClickKeeps, PageKeeps, PlanKeeps, ApproveKeeps,
     SimulateKeeps, WalletKeeps, ReceiptKeeps, CheckTransactionKeeps, CheckAnswerKeeps, PollKeeps,
     OfferKeeps, RevealKeeps DEF Next
<1> QED BY <1>1, <1>2

\* While the wallet is asked to place a bet, the page knows what became of every earlier
\* submission (executeGamePlaceBetAction, reconcileNow and the reducer of the stepper).
THEOREM NoStakeTwice == Spec => []EverySubmissionIsAccounted
<1>1. RoomInv /\ [Next]_vars => RoomInv'
  BY RoomStep
<1>2. RoomInv => EverySubmissionIsAccounted
  <2> SUFFICES ASSUME RoomInv, run = "wallet", NEW n \in 1..(asked - 1) PROVE Accounted(n)
    BY DEF EverySubmissionIsAccounted, Accounted
  <2>1. n \in Bets /\ n < asked
    BY StepperFacts, BoundsAssumption DEF Bets
  <2> QED BY <2>1 DEF RoomInv, StakeInv
<1> QED BY <1>1, <1>2, RoomInit, PTL DEF Spec

-----------------------------------------------------------------------------
(***************************************************************************)
(* A result is shown once, of a bet that is over.  A round that is         *)
(* followed is bound and has nothing to show yet; a terminal bet of the    *)
(* page is over, and one that was told is the last one displayed; and      *)
(* whatever begins a placement leaves nothing undisplayed behind, for      *)
(* until the result is displayed it is pending or on the stage.            *)
(***************************************************************************)
PollInv == poll \in [at : {"none", "bet", "void"}, bet : Nat, seen : {"none", "placed"}]

FollowInv ==
    stepper.status = "reconciled" =>
        /\ stepper.bet \in Bets /\ fate[stepper.bet] = "bound" /\ page.latest # stepper.bet
        /\ watch.bet \in {NoBet, stepper.bet} /\ page.terminal \in {NoBet, stepper.bet}
        /\ poll = NoPoll \/ poll.bet = stepper.bet

\* Of a submission that is not bound yet nothing was told, and the page is cleared for it.
FreshInv ==
    /\ \A b \in Bets : b > asked => fate[b] = "unknown"
    /\ run \in {"wallet", "receipt"} => fate[asked] = "unknown"
    /\ stepper.status # "reconciled" /\ stepper.hash # NoBet =>
           fate[asked] = "unknown" /\ page.terminal = NoBet
    /\ stepper.status \in {"submitting", "mined"} => page.terminal = NoBet
    /\ stepper.status = "idle" => stepper.hash = NoBet
    /\ page.latest # NoBet => page.latest \in Bets /\ fate[page.latest] # "unknown"

TellInv ==
    page.terminal # NoBet =>
        /\ page.terminal \in Bets /\ chain[page.terminal] \in Terminal
        /\ fate[page.terminal] \in {"bound", "told"}
        /\ fate[page.terminal] = "told" =>
               page.displayed = page.terminal /\ page.latest = page.terminal

\* What page p has on its stage while the stepper is at a status.
StageOf(p, status) ==
    /\ DOMAIN p = PageFields /\ DOMAIN p.reveal = {"bet", "phase"}
    /\ p.shown \in BOOLEAN /\ p.pending \in BOOLEAN
    /\ p.shown => status = "idle" /\ p.terminal \in {NoBet, p.displayed}
    /\ p.terminal \in {NoBet, p.displayed} \/ status = "reconciled"
           \/ (status = "idle" /\ (p.pending \/ p.reveal # NoReveal))
    /\ status = "reconciled" => Resolving(p) = NoBet

ShownInv == PollInv /\ FollowInv /\ FreshInv /\ TellInv /\ StageOf(page, stepper.status)

\* No result is told or put on show.
TellsNothing ==
    /\ \A b \in Bets : (fate'[b] = "told") <=> (fate[b] = "told")
    /\ page'.shown => page.shown

\* A bet that is over stays as it is.
OverStays ==
    chain' \in [Bets -> ChainStates] /\ \A b \in Bets : chain[b] \in Terminal => chain'[b] = chain[b]

LEMMA ShownInit == Init => ShownInv
<1> SUFFICES ASSUME Init PROVE ShownInv
  OBVIOUS
<1>1. PollInv
  BY DEF Init, PollInv, NoPoll, NoBet
<1>2. FollowInv /\ FreshInv /\ TellInv
  BY IdleStepperType DEF Init, FollowInv, FreshInv, TellInv
<1>3. StageOf(page, stepper.status)
  BY IdleStepperType DEF Init, StageOf, PageFields, Resolving, NoReveal
<1> QED BY <1>1, <1>2, <1>3 DEF ShownInv

LEMMA ResolvingTable == \A p : Resolving(p) \in {NoBet, p.terminal}
BY DEF Resolving

LEMMA ResetTable ==
  ASSUME NEW p, DOMAIN p = PageFields, p.pending \in BOOLEAN, p.shown \in BOOLEAN
  PROVE  /\ RoundStart(p).terminal = NoBet /\ RoundReset(p).terminal = NoBet
         /\ RoundStart(p).latest = p.latest /\ RoundReset(p).latest = p.latest
         /\ RoundStart(p).shown = p.shown /\ RoundReset(p).shown = FALSE
         /\ DOMAIN RoundReset(p) = PageFields /\ RoundReset(p).pending = p.pending
         /\ \A status : StageOf(RoundReset(p), status)
         /\ ~p.shown => \A status : StageOf(RoundStart(p), status)
<1> DEFINE r == RoundStart(p)
           z == RoundReset(p)
<1>1. /\ DOMAIN r = PageFields /\ r.terminal = NoBet /\ r.latest = p.latest /\ r.shown = p.shown
      /\ r.reveal = NoReveal /\ r.pending = p.pending
  BY DEF RoundStart, PageFields
<1>2. z = [r EXCEPT !.shown = FALSE]
  BY DEF RoundReset
<1> HIDE DEF r, z
<1>3. /\ DOMAIN z = PageFields /\ z.terminal = NoBet /\ z.latest = p.latest /\ z.shown = FALSE
      /\ z.reveal = NoReveal /\ z.pending = p.pending
  BY <1>1, <1>2 DEF PageFields
<1>4. DOMAIN NoReveal = {"bet", "phase"}
  BY DEF NoReveal
<1>5. Resolving(r) = NoBet /\ Resolving(z) = NoBet
  BY <1>1, <1>3, ResolvingTable
<1>6. \A status : StageOf(z, status)
  BY <1>3, <1>4, <1>5 DEF StageOf
<1>7. ~p.shown => \A status : StageOf(r, status)
  BY <1>1, <1>4, <1>5 DEF StageOf
<1> QED BY <1>1, <1>3, <1>6, <1>7 DEF r, z

\* The effects after a handler that left page p, snapshot w and poll q.
LEMMA CommitShows ==
  ASSUME RoomInv, ShownInv, NEW p, NEW w, NEW q, Commit(p, w, q), UNCHANGED <<run, asked>>, OverStays,
         DOMAIN p = PageFields, DOMAIN p.reveal = {"bet", "phase"}, p.pending \in BOOLEAN,
         p.shown = page.shown, p.displayed = page.displayed, p.latest = page.latest,
         \/ p.terminal = page.terminal
         \/ stepper.status = "reconciled" /\ p.terminal = stepper.bet /\ chain'[stepper.bet] \in Terminal,
         stepper.status # "reconciled" =>
             /\ w.bet = NoBet /\ q = NoPoll
             /\ (p.pending = page.pending /\ p.reveal = page.reveal) \/ p.reveal # NoReveal,
         stepper.status = "reconciled" => w.bet \in {NoBet, stepper.bet} /\ q \in {poll, NoPoll}
  PROVE  ShownInv' /\ TellsNothing
<1> USE DEF ShownInv
<1>1. /\ fate \in [Bets -> Fates] /\ StageOf(page, stepper.status)
      /\ stepper.status # "reconciled" => page.terminal \in {NoBet, page.latest}
      /\ stepper.status = "reconciled" => run = "none" /\ ~page.shown
  BY RoundFields, StepperFacts DEF StageOf
<1>2. NoPoll \in [at : {"none", "bet", "void"}, bet : Nat, seen : {"none", "placed"}]
  BY DEF NoPoll, NoBet
<1>3. p.terminal # NoBet =>
          /\ p.terminal \in Bets /\ chain'[p.terminal] \in Terminal
          /\ fate[p.terminal] \in {"bound", "told"}
          /\ fate[p.terminal] = "told" => p.displayed = p.terminal /\ p.latest = p.terminal
  BY DEF TellInv, FollowInv, OverStays
<1>4. CASE w.phase = "result_unbooked" /\ w.bet # NoBet
  <2>1. /\ fate' = [fate EXCEPT ![w.bet] = "noticed"] /\ page' = RoundReset(p)
        /\ stepper' = IdleStepper /\ watch' = Idle(w) /\ poll' = NoPoll
    BY <1>4 DEF Commit
  <2>2. stepper.status = "reconciled" /\ w.bet = stepper.bet /\ w.bet \in Bets /\ fate[w.bet] = "bound"
    BY <1>4 DEF FollowInv
  <2>3. /\ fate'[w.bet] = "noticed" /\ \A b \in Bets : b # w.bet => fate'[b] = fate[b]
    BY <1>1, <2>1, <2>2
  <2>4. /\ page'.terminal = NoBet /\ page'.latest = page.latest /\ ~page'.shown
        /\ StageOf(page', stepper'.status)
    <3>1. p.shown \in BOOLEAN
      BY <1>1 DEF StageOf
    <3> QED BY <2>1, <3>1, ResetTable
  <2>5. FreshInv' /\ FollowInv' /\ TellInv'
    BY <1>1, <2>1, <2>2, <2>3, <2>4, IdleStepperType DEF FreshInv, FollowInv, TellInv
  <2>6. PollInv'
    BY <1>2, <2>1 DEF PollInv
  <2>7. TellsNothing
    BY <2>2, <2>3, <2>4 DEF TellsNothing
  <2> QED BY <2>4, <2>5, <2>6, <2>7
<1>5. CASE ~(w.phase = "result_unbooked" /\ w.bet # NoBet) /\ Arrives(p)
  <2>1. /\ page' = [p EXCEPT !.latest = Resolving(p), !.displayed = NoBet, !.pending = TRUE]
        /\ stepper' = IdleStepper /\ watch' = Idle(w) /\ poll' = NoPoll /\ UNCHANGED fate
    BY <1>5 DEF Commit
  <2>2. Resolving(p) = p.terminal /\ p.terminal \notin {NoBet, p.latest}
    BY <1>5 DEF Arrives, Resolving
  <2>3. stepper.status = "reconciled" /\ p.terminal = stepper.bet /\ fate[p.terminal] = "bound"
    BY <1>1, <2>2 DEF FollowInv
  <2>4. /\ DOMAIN page' = PageFields /\ page'.terminal = p.terminal /\ page'.latest = p.terminal
        /\ page'.pending = TRUE /\ page'.shown = FALSE /\ page'.reveal = p.reveal
    BY <1>1, <2>1, <2>2, <2>3 DEF PageFields, StageOf
  <2>5. StageOf(page', stepper'.status)
    BY <2>1, <2>4, IdleStepperType DEF StageOf
  <2>6. TellInv'
    BY <1>3, <2>1, <2>3, <2>4 DEF TellInv
  <2>7. FreshInv' /\ FollowInv' /\ PollInv'
    BY <1>1, <1>2, <1>3, <2>1, <2>2, <2>3, <2>4, IdleStepperType DEF FreshInv, FollowInv, PollInv
  <2>8. TellsNothing
    BY <2>1, <2>4 DEF TellsNothing
  <2> QED BY <2>5, <2>6, <2>7, <2>8
<1>6. CASE ~(w.phase = "result_unbooked" /\ w.bet # NoBet) /\ ~Arrives(p)
  <2>1. page' = p /\ watch' = w /\ poll' = q /\ UNCHANGED <<stepper, fate>>
    BY <1>6 DEF Commit
  <2>2. stepper.status = "reconciled" => p.terminal \in {NoBet, stepper.bet} /\ p.latest # stepper.bet
    BY DEF FollowInv
  <2>3. stepper.status = "reconciled" => Resolving(p) = NoBet
    <3>1. Resolving(p) \in {NoBet, p.latest} /\ Resolving(p) \in {NoBet, p.terminal}
      BY <1>6, ResolvingTable DEF Arrives
    <3> QED BY <2>2, <3>1
  <2>4. StageOf(page', stepper'.status)
    BY <1>1, <2>1, <2>3 DEF StageOf
  <2>5. TellInv'
    BY <1>3, <2>1 DEF TellInv
  <2>6. FollowInv'
    BY <2>1, <2>2 DEF FollowInv
  <2>7. FreshInv'
    BY <2>1, StepperFacts DEF FreshInv
  <2>8. PollInv'
    BY <1>2, <2>1 DEF PollInv
  <2>9. TellsNothing
    BY <2>1 DEF TellsNothing
  <2> QED BY <2>4, <2>5, <2>6, <2>7, <2>8, <2>9
<1> QED BY <1>4, <1>5, <1>6

\* A step that leaves the stepper, the page and the fates alone.
LEMMA SameRound ==
  ASSUME RoomInv, ShownInv, OverStays, UNCHANGED <<stepper, page, fate>>, watch'.bet = watch.bet,
         asked' = asked \/ (stepper.hash = NoBet /\ asked' = asked + 1),
         run' \in {"wallet", "receipt"} => fate[asked'] = "unknown",
         PollInv', poll' \in {poll, NoPoll} \/ poll'.bet = stepper.bet \/ (poll # NoPoll /\ poll'.bet = poll.bet)
  PROVE  ShownInv' /\ TellsNothing
<1> USE DEF ShownInv
<1>1. FollowInv'
  BY DEF FollowInv
<1>2. FreshInv'
  <2>1. asked \in Nat /\ Bets \subseteq Nat /\ asked' >= asked
    BY StepperFacts DEF Bets
  <2>2. \A b \in Bets : b > asked' => fate'[b] = "unknown"
    BY <2>1 DEF FreshInv
  <2>3. stepper.status # "reconciled" /\ stepper.hash # NoBet => fate'[asked'] = "unknown"
    BY DEF FreshInv
  <2> QED BY <2>2, <2>3 DEF FreshInv
<1>3. TellInv'
  BY DEF TellInv, OverStays
<1>4. TellsNothing
  BY DEF TellsNothing
<1> QED BY <1>1, <1>2, <1>3, <1>4

\* The stepper moves within a placement, or a check of its receipt ends without a bet.
LEMMA StepperMoves ==
  ASSUME RoomInv, ShownInv, RoomInv', OverStays, NEW s, stepper' = s,
         stepper.status \notin {"idle", "reconciled"}, s.status # "reconciled",
         UNCHANGED <<page, fate, asked>>, run' \in {run, "none"},
         s.hash # NoBet => fate[asked] = "unknown" /\ page.terminal = NoBet,
         s.status \in {"submitting", "mined"} => page.terminal = NoBet,
         s.status = "idle" => s.hash = NoBet
  PROVE  ShownInv' /\ TellsNothing
<1> USE DEF ShownInv
<1>1. poll' = NoPoll
  BY DEF RoomInv, RoundInv
<1>2. PollInv' /\ FollowInv'
  BY <1>1 DEF PollInv, FollowInv, NoPoll, NoBet
<1>3. FreshInv'
  BY DEF FreshInv
<1>4. TellInv'
  BY DEF TellInv, OverStays
<1>5. StageOf(page, s.status)
  BY DEF StageOf
<1>6. TellsNothing
  BY DEF TellsNothing
<1> QED BY <1>2, <1>3, <1>4, <1>5, <1>6

\* The placement, or the check of its receipt, binds the bet.
LEMMA BoundShows ==
  ASSUME RoomInv, ShownInv, UNCHANGED <<chain, page, asked>>, run' = "none", Dispatch(Bound(asked)),
         asked \in Bets, fate[asked] = "unknown", fate' = [fate EXCEPT ![asked] = "bound"],
         stepper.status \in {"submitting", "mined"}
  PROVE  ShownInv' /\ TellsNothing
<1> USE DEF ShownInv
<1>1. /\ asked \in Nat /\ stepper' = Bound(asked) /\ Bound(asked).status = "reconciled"
      /\ Bound(asked).bet = asked /\ Bound(asked).hash = asked
  BY StepperFacts, BoundType DEF Dispatch
<1>2. /\ watch' = [watch EXCEPT !.known = Unread(asked), !.stopped = FALSE] /\ poll' = PollOf(asked)
      /\ watch.bet = NoBet /\ page.terminal = NoBet
  BY <1>1, RoundFields DEF Dispatch, FreshInv
<1>3. /\ fate'[asked] = "bound" /\ \A b \in Bets : b # asked => fate'[b] = fate[b]
  BY RoundFields
<1>4. PollInv' /\ watch'.bet = NoBet /\ poll'.bet = asked
  BY <1>1, <1>2, RoundFields DEF PollInv, PollOf, WatchFields
<1>5. page.latest # asked
  BY DEF FreshInv, Bets, NoBet
<1>6. FollowInv'
  BY <1>1, <1>2, <1>3, <1>4, <1>5 DEF FollowInv
<1>7. FreshInv'
  BY <1>1, <1>2, <1>3 DEF FreshInv, Bets
<1>8. TellInv'
  BY <1>2 DEF TellInv
<1>9. StageOf(page, stepper'.status)
  BY <1>1, <1>2, ResolvingTable DEF StageOf
<1>10. TellsNothing
  BY <1>3 DEF TellsNothing
<1> QED BY <1>4, <1>6, <1>7, <1>8, <1>9, <1>10

LEMMA PlaceBetShows ==
  ASSUME RoomInv, ShownInv, RoomInv', NEW p, PlaceBet(p), DOMAIN p = PageFields,
         p.pending \in BOOLEAN, p.shown \in BOOLEAN, p.latest = page.latest,
         p = page \/ p.terminal = NoBet, stepper.status = "idle" => StageOf(p, "planning")
  PROVE  ShownInv' /\ TellsNothing
<1> USE DEF ShownInv
<1>1. /\ run = "none" /\ stepper.status \in {"idle", "failed", "reconciled"}
      /\ UNCHANGED <<chain, asked>>
  BY StepperFacts DEF PlaceBet, Busy, StepperType
<1>2. CASE stepper.status = "reconciled"
  <2>1. /\ stepper' = IdleStepper /\ page' = RoundReset(p) /\ run' = "none" /\ poll' = NoPoll
        /\ fate' = [fate EXCEPT ![stepper.bet] = IF @ = "bound" THEN "left" ELSE @]
    BY <1>1, <1>2, IdleStepperType DEF PlaceBet, Dispatch
  <2>2. stepper.bet \in Bets /\ fate[stepper.bet] = "bound"
    BY <1>2 DEF FollowInv
  <2>3. fate'[stepper.bet] = "left" /\ \A b \in Bets : b # stepper.bet => fate'[b] = fate[b]
    BY <2>1, <2>2, RoundFields
  <2>4. /\ page'.terminal = NoBet /\ page'.latest = page.latest /\ page'.shown = FALSE
        /\ StageOf(page', stepper'.status)
    BY <2>1, ResetTable
  <2>5. PollInv' /\ FollowInv' /\ TellInv'
    BY <2>1, <2>4, IdleStepperType DEF PollInv, FollowInv, TellInv, NoPoll, NoBet
  <2>6. FreshInv'
    BY <1>1, <2>1, <2>2, <2>3, <2>4, IdleStepperType DEF FreshInv
  <2>7. TellsNothing
    BY <2>2, <2>3, <2>4 DEF TellsNothing
  <2> QED BY <2>4, <2>5, <2>6, <2>7
<1>3. CASE stepper.status # "reconciled"
  <2> DEFINE s == [IdleStepper EXCEPT !.status = "planning"]
  <2>1. /\ Dispatch(s) /\ run' = "plan" /\ UNCHANGED fate
        /\ page' = IF stepper.status = "failed" THEN RoundReset(p) ELSE p
    BY <1>3 DEF PlaceBet
  <2>2. s.status = "planning" /\ s.hash = NoBet
    BY IdleStepperType DEF StepperType
  <2> HIDE DEF s
  <2>3. stepper' = s /\ poll' = NoPoll
    BY <1>3, <2>1, <2>2, RoundFields DEF Dispatch
  <2>4. /\ StageOf(page', "planning") /\ page'.latest = page.latest
        /\ page'.terminal = NoBet \/ page' = page
    <3>1. CASE stepper.status = "failed"
      BY <2>1, <3>1, ResetTable
    <3>2. CASE stepper.status = "idle"
      BY <2>1, <3>2
    <3> QED BY <1>1, <1>3, <3>1, <3>2
  <2>5. PollInv' /\ FollowInv'
    BY <2>2, <2>3 DEF PollInv, FollowInv, NoPoll, NoBet
  <2>6. TellInv'
    BY <1>1, <2>1, <2>4 DEF TellInv
  <2>7. FreshInv'
    BY <1>1, <2>1, <2>2, <2>3, <2>4 DEF FreshInv
  <2>8. TellsNothing
    BY <2>1, <2>4 DEF TellsNothing, StageOf
  <2> QED BY <2>2, <2>3, <2>4, <2>5, <2>6, <2>7, <2>8
<1> QED BY <1>2, <1>3

LEMMA ClickShows ==
  ASSUME RoomInv, ShownInv, RoomInv', ClickPlace \/ PlayAgain
  PROVE  ShownInv' /\ TellsNothing
<1>1. StageOf(page, stepper.status) /\ DOMAIN page = PageFields /\ page.pending \in BOOLEAN
      /\ page.shown \in BOOLEAN
  BY DEF ShownInv, StageOf
<1>2. CASE ClickPlace
  <2>1. stepper.status = "idle" => ~page.shown /\ ~page.pending /\ page.reveal = NoReveal
    BY <1>2 DEF ClickPlace, ButtonPlaces
  <2>2. stepper.status = "idle" => StageOf(page, "planning")
    BY <1>1, <2>1 DEF StageOf
  <2> QED BY <1>1, <1>2, <2>2, PlaceBetShows DEF ClickPlace
<1>3. CASE PlayAgain
  <2> DEFINE z == RoundReset(page)
  <2>1. /\ DOMAIN z = PageFields /\ z.pending \in BOOLEAN /\ z.shown \in BOOLEAN
        /\ z.latest = page.latest /\ z.terminal = NoBet /\ StageOf(z, "planning")
    BY <1>1, ResetTable
  <2>2. PlaceBet(z)
    BY <1>3 DEF PlayAgain
  <2> HIDE DEF z
  <2> QED BY <2>1, <2>2, PlaceBetShows
<1> QED BY <1>2, <1>3

\* The placement goes on or ends.
LEMMA EndRunShows ==
  ASSUME RoomInv, ShownInv, RoomInv', run # "none", OverStays, NEW s, EndRun(s), s.status \in {"idle", "failed"},
         s.hash = NoBet
  PROVE  ShownInv' /\ TellsNothing
<1>1. stepper' = s /\ run' = "none" /\ UNCHANGED <<page, fate, asked>>
  BY DEF EndRun, Dispatch
<1>2. stepper.status \notin {"idle", "reconciled"}
  BY StepperFacts
<1> QED BY <1>1, <1>2, StepperMoves

LEMMA RunShows ==
  ASSUME RoomInv, ShownInv, RoomInv', PlanAnswer \/ ApproveAnswer \/ Simulate \/ WalletAnswer
  PROVE  ShownInv' /\ TellsNothing
<1>1. /\ run # "none" /\ stepper.hash = NoBet /\ stepper.status \in {"planning", "submitting"}
      /\ asked \in Nat
  BY StepperFacts DEF PlanAnswer, ApproveAnswer, Simulate, WalletAnswer
<1>2. OverStays
  <2>1. chain' \in [Bets -> ChainStates]
    BY DEF RoomInv, TypeInv
  <2>2. run = "wallet" => chain[asked] = "none"
    BY DEF RoomInv, StakeInv
  <2>3. \A b \in Bets : chain[b] \in Terminal => chain'[b] = chain[b]
    BY <2>2, RoundFields DEF PlanAnswer, ApproveAnswer, Simulate, WalletAnswer, Terminal
  <2> QED BY <2>1, <2>3 DEF OverStays
<1>3. CASE EndRun(IdleStepper) \/ \E error \in {"other", "unconfirmed"} : EndRun(Failed(error))
  <2>1. IdleStepper.status = "idle" /\ IdleStepper.hash = NoBet
    BY IdleStepperType
  <2>2. \A error \in {"other", "unconfirmed"} : Failed(error).status = "failed" /\ Failed(error).hash = NoBet
    BY <1>1, FailedType
  <2> QED BY <1>1, <1>2, <1>3, <2>1, <2>2, EndRunShows
<1>4. CASE PlanAnswer /\ Dispatch([stepper EXCEPT !.status = "submitting"]) /\ page' = RoundStart(page)
           /\ run' \in {"approve", "place"} /\ UNCHANGED <<late, asked, checking, manual, fate>>
  <2> DEFINE s == [stepper EXCEPT !.status = "submitting"]
  <2>1. s.status = "submitting" /\ s.hash = NoBet
    BY <1>1, StepperFacts DEF StepperType
  <2>2. stepper' = s
    BY <1>4 DEF Dispatch
  <2> HIDE DEF s
  <2>3. poll' = NoPoll /\ UNCHANGED chain
    BY <1>4, <2>1, <2>2 DEF RoomInv, RoundInv, PlanAnswer
  <2>4. ~page.shown /\ page.shown \in BOOLEAN /\ page.pending \in BOOLEAN /\ DOMAIN page = PageFields
    BY <1>1 DEF ShownInv, StageOf
  <2>5. /\ page'.terminal = NoBet /\ page'.latest = page.latest /\ StageOf(page', stepper'.status)
        /\ ~page'.shown
    BY <1>4, <2>4, ResetTable
  <2>6. PollInv' /\ FollowInv' /\ TellInv'
    BY <2>1, <2>2, <2>3, <2>5 DEF PollInv, FollowInv, TellInv, NoPoll, NoBet
  <2>7. FreshInv'
    BY <1>4, <2>1, <2>2, <2>5 DEF ShownInv, FreshInv
  <2>8. TellsNothing
    BY <1>4, <2>5 DEF TellsNothing
  <2> QED BY <2>5, <2>6, <2>7, <2>8 DEF ShownInv
<1>5. CASE /\ UNCHANGED <<stepper, watch, poll, page, fate>>
           /\ \/ asked' = asked /\ run' = "place"
              \/ asked' = asked /\ run' = "receipt" /\ run = "wallet"
              \/ asked' = asked + 1 /\ run = "place"
  <2>1. asked' = asked + 1 /\ run = "place" => asked' \in Bets /\ asked' > asked
    BY <1>1, BoundsAssumption DEF RoomInv, StakeInv, Bets
  <2>2. run' \in {"wallet", "receipt"} => fate[asked'] = "unknown"
    BY <1>5, <2>1 DEF ShownInv, FreshInv
  <2>3. PollInv'
    BY <1>5 DEF ShownInv, PollInv
  <2> QED BY <1>1, <1>2, <1>5, <2>2, <2>3, SameRound
<1> QED
  <2>1. CASE PlanAnswer
    BY <1>3, <1>4, <2>1 DEF PlanAnswer
  <2>2. CASE ApproveAnswer
    BY <1>3, <1>5, <2>2 DEF ApproveAnswer, stepVars
  <2>3. CASE Simulate
    BY <1>3, <1>5, <2>3 DEF Simulate, stepVars
  <2>4. CASE WalletAnswer
    BY <1>3, <1>5, <2>4 DEF WalletAnswer, stepVars
  <2> QED BY <2>1, <2>2, <2>3, <2>4

LEMMA ReceiptShows ==
  ASSUME RoomInv, ShownInv, RoomInv', ReceiptAnswer
  PROVE  ShownInv' /\ TellsNothing
<1>1. /\ run = "receipt" /\ UNCHANGED chain /\ stepper.status = "submitting" /\ asked \in Bets /\ asked \in Nat
      /\ fate[asked] = "unknown" /\ page.terminal = NoBet
  <2>1. run = "receipt" /\ UNCHANGED chain /\ asked \in Bets /\ asked \in Nat
    BY StepperFacts DEF ReceiptAnswer, RoomInv, StakeInv
  <2>2. stepper.status = "submitting"
    BY <2>1 DEF RoomInv, StepInv
  <2> QED BY <2>1, <2>2 DEF ShownInv, FreshInv
<1>2. OverStays
  BY <1>1, RoundFields DEF OverStays
<1>3. ASSUME NEW s, EndRun(s), s.status \in {"failed", "mined"}
      PROVE  ShownInv' /\ TellsNothing
  <2>1. stepper' = s /\ run' = "none" /\ UNCHANGED <<page, fate, asked>>
    BY <1>3 DEF EndRun, Dispatch
  <2> QED BY <1>1, <1>2, <1>3, <2>1, StepperMoves
<1>4. ASSUME NEW error \in {"unconfirmed", "reverted"}
      PROVE  [Failed(error) EXCEPT !.hash = asked].status = "failed"
  BY FailedType DEF StepperType
<1>5. [stepper EXCEPT !.status = "mined", !.hash = asked].status = "mined"
  BY StepperFacts DEF StepperType
<1>6. CASE EndRun(Bound(asked))
  <2>1. /\ Dispatch(Bound(asked)) /\ run' = "none" /\ UNCHANGED <<page, asked>>
        /\ fate' = [fate EXCEPT ![asked] = "bound"]
    BY <1>1, <1>6, BoundType DEF EndRun
  <2> QED BY <1>1, <2>1, BoundShows
<1> QED BY <1>3, <1>4, <1>5, <1>6 DEF ReceiptAnswer

LEMMA CheckShows ==
  ASSUME RoomInv, ShownInv, RoomInv', CheckTransaction \/ CheckAnswer
  PROVE  ShownInv' /\ TellsNothing
<1>1. /\ stepper.hash = asked /\ stepper.hash # NoBet /\ stepper.status \notin {"idle", "reconciled"}
      /\ UNCHANGED <<chain, run, asked, page>> /\ asked \in Bets /\ run = "none"
  BY StepperFacts DEF CheckTransaction, CheckAnswer, ShownInv, FreshInv, NoBet
<1>2. fate[asked] = "unknown" /\ page.terminal = NoBet
  BY <1>1 DEF ShownInv, FreshInv
<1>3. OverStays
  BY <1>1, RoundFields DEF OverStays
<1>4. ASSUME NEW s, Dispatch(s), s.status \in {"failed", "mined"}, UNCHANGED fate
      PROVE  ShownInv' /\ TellsNothing
  BY <1>1, <1>2, <1>3, <1>4, StepperMoves DEF Dispatch
<1>5. CASE CheckTransaction
  <2> DEFINE s == [stepper EXCEPT !.status = "mined", !.error = "none"]
  <2>1. s.status = "mined"
    BY StepperFacts DEF StepperType
  <2>2. Dispatch(s) /\ UNCHANGED fate
    BY <1>5 DEF CheckTransaction
  <2> HIDE DEF s
  <2> QED BY <1>4, <2>1, <2>2
<1>6. CASE CheckAnswer
  <2>1. ASSUME NEW error \in {"other", "reverted"}, Dispatch(ReconcileError(error)), UNCHANGED fate
        PROVE  ShownInv' /\ TellsNothing
    <3>1. ReconcileError(error).status \in {"failed", "mined"}
      BY StepperFacts DEF ReconcileError, StepperType
    <3> QED BY <1>4, <2>1, <3>1
  <2>2. CASE Dispatch(Bound(stepper.hash)) /\ fate' = [fate EXCEPT ![stepper.hash] = "bound"]
    <3>1. stepper.status = "mined"
      BY <1>6, StepperFacts DEF CheckAnswer
    <3> QED BY <1>1, <1>2, <2>2, <3>1, BoundShows
  <2> QED BY <1>6, <2>1, <2>2 DEF CheckAnswer
<1> QED BY <1>5, <1>6

-----------------------------------------------------------------------------
(* What is shown: the chain, the handlers that end in the effects.         *)

LEMMA ChainShows ==
  ASSUME RoomInv, ShownInv, RoomInv', NEW b \in Bets, Advance(b) \/ DeadlineOver(b)
  PROVE  ShownInv' /\ TellsNothing
<1>1. UNCHANGED <<run, asked, stepper, watch, poll, page, fate>>
  BY DEF Advance, DeadlineOver, stepVars
<1>2. \A n \in Bets : chain[n] \in Terminal => chain'[n] = chain[n]
  <2>1. CASE DeadlineOver(b)
    BY <2>1 DEF DeadlineOver
  <2>2. CASE Advance(b)
    <3>1. PICK s \in After(b) : chain' = [chain EXCEPT ![b] = s]
      BY <2>2 DEF Advance
    <3>2. chain[b] \notin Terminal
      BY DEF After, Terminal
    <3> QED BY <3>1, <3>2, RoundFields
  <2> QED BY <2>1, <2>2
<1>3. OverStays
  BY <1>2 DEF OverStays, RoomInv, TypeInv
<1>4. PollInv' /\ (run \in {"wallet", "receipt"} => fate[asked] = "unknown")
  BY <1>1 DEF ShownInv, PollInv, FreshInv
<1> QED BY <1>1, <1>3, <1>4, SameRound

\* The page as CommitShows takes it.
LEMMA PageAsItIs ==
  ASSUME RoomInv, ShownInv
  PROVE  /\ DOMAIN page = PageFields /\ DOMAIN page.reveal = {"bet", "phase"}
         /\ page.pending \in BOOLEAN /\ page.shown \in BOOLEAN
         /\ watch.bet \in {NoBet, stepper.bet} \/ stepper.status # "reconciled"
BY DEF ShownInv, StageOf, FollowInv

LEMMA ManualShows ==
  ASSUME RoomInv, ShownInv, RoomInv', NEW b \in Bets, SettleAnswer(b) \/ RefundAnswer(b)
  PROVE  ShownInv' /\ TellsNothing
<1>1. UNCHANGED <<run, asked>>
  BY DEF SettleAnswer, RefundAnswer
<1>2. \A n \in Bets : chain[n] \in Terminal => chain'[n] = chain[n]
  BY RoundFields DEF SettleAnswer, RefundAnswer, Terminal
<1>3. OverStays
  BY <1>2 DEF OverStays, RoomInv, TypeInv
<1>4. PICK w : Commit(page, w, poll) /\ w.bet = watch.bet
  <2> DEFINE w1(phase) == [watch EXCEPT !.phase = phase]
             w2(known) == [watch EXCEPT !.phase = "result_unbooked", !.known = known]
  <2>1. \A phase : w1(phase).bet = watch.bet
    BY RoundFields DEF WatchFields
  <2>2. \A known : w2(known).bet = watch.bet
    BY RoundFields DEF WatchFields
  <2>3. (\E phase : Commit(page, w1(phase), poll)) \/ (\E known : Commit(page, w2(known), poll))
    BY Zenon DEF SettleAnswer, RefundAnswer
  <2> HIDE DEF w1, w2
  <2> QED BY <2>1, <2>2, <2>3
<1> QED BY <1>1, <1>3, <1>4, PageAsItIs, RoundFields, CommitShows

\* A read of the bet that is followed.
LEMMA SnapshotShows ==
  ASSUME RoomInv, ShownInv, RoomInv', poll # NoPoll, UNCHANGED chain, NEW seen, NEW known,
         Snapshot(seen, known), seen \in Terminal => chain[poll.bet] \in Terminal
  PROVE  ShownInv' /\ TellsNothing
<1>1. stepper.status = "reconciled" /\ poll.bet = stepper.bet
  BY RoundFields DEF ShownInv, FollowInv
<1>2. UNCHANGED <<run, asked>>
  BY DEF Snapshot
<1>3. OverStays
  BY RoundFields DEF OverStays
<1> DEFINE b == poll.bet
           over == seen \in Terminal /\ watch.terminal # b
           p == [page EXCEPT
                   !.terminal = IF over THEN b ELSE @,
                   !.pending = @ /\ ~over,
                   !.outcome = IF seen = "ready" /\ page.terminal = NoBet /\ page.revealed # b
                               THEN b ELSE @]
           w(ripe) == [watch EXCEPT !.phase = Phase(b, seen, known, ripe), !.bet = b, !.seen = seen,
                                    !.ripe = ripe, !.known = known, !.stopped = @ \/ over,
                                    !.terminal = IF over THEN b ELSE @]
<1>4. \E ripe : Commit(p, w(ripe), NoPoll)
  BY Zenon DEF Snapshot
<1>5. \A ripe : w(ripe).bet = b
  BY RoundFields, Zenon DEF WatchFields
<1>6. /\ DOMAIN p = PageFields /\ p.reveal = page.reveal /\ p.shown = page.shown
      /\ p.displayed = page.displayed /\ p.latest = page.latest
      /\ p.terminal = (IF over THEN b ELSE page.terminal)
  BY PageAsItIs DEF PageFields
<1>7. p.pending \in BOOLEAN
  <2>1. p.pending = (page.pending /\ ~over)
    BY PageAsItIs DEF PageFields
  <2> QED BY <2>1
<1>8. p.terminal = page.terminal \/ (p.terminal = stepper.bet /\ chain'[stepper.bet] \in Terminal)
  BY <1>1, <1>6
<1> HIDE DEF p, w
<1>9. PICK v : Commit(p, v, NoPoll) /\ v.bet = stepper.bet
  BY <1>1, <1>4, <1>5
<1> QED BY <1>1, <1>2, <1>3, <1>6, <1>7, <1>8, <1>9, PageAsItIs, CommitShows

LEMMA PollShows ==
  ASSUME RoomInv, ShownInv, RoomInv', PollStart \/ PollFail \/ PollBet \/ PollVoid
  PROVE  ShownInv' /\ TellsNothing
<1>1. poll # NoPoll => poll.bet \in Bets
  BY RoundFields DEF ShownInv, FollowInv
<1>2. UNCHANGED chain => OverStays
  BY RoundFields DEF OverStays
<1>3. run \in {"wallet", "receipt"} => fate[asked] = "unknown"
  BY DEF ShownInv, FreshInv
<1>4. CASE PollStart
  <2>1. /\ poll' = PollOf(stepper.bet) /\ UNCHANGED <<chain, run, asked, stepper, watch, page, fate>>
    BY <1>4 DEF PollStart
  <2>2. PollInv' /\ poll'.bet = stepper.bet
    BY <2>1, StepperFacts DEF PollInv, PollOf, StepperType
  <2> QED BY <1>2, <1>3, <2>1, <2>2, SameRound
<1>5. CASE PollFail
  <2>1. PICK phase : watch' = [watch EXCEPT !.phase = phase]
    BY <1>5 DEF PollFail
  <2>2. watch'.bet = watch.bet
    BY <2>1, RoundFields DEF WatchFields
  <2>3. poll' = NoPoll /\ UNCHANGED <<chain, run, asked, stepper, page, fate>> /\ PollInv'
    BY <1>5 DEF PollFail, PollInv, NoPoll, NoBet
  <2> QED BY <1>2, <1>3, <2>2, <2>3, SameRound
<1>6. CASE PollBet
  <2>1. poll # NoPoll
    BY <1>6 DEF PollBet, NoPoll
  <2>2. CASE Snapshot(Seen(poll.bet), watch.known)
    <3>1. Seen(poll.bet) \in Terminal => chain[poll.bet] \in Terminal
      BY DEF Seen, Terminal
    <3>2. UNCHANGED chain
      BY <2>2 DEF Snapshot
    <3> QED BY <2>1, <2>2, <3>1, <3>2, SnapshotShows
  <2>3. CASE /\ poll' = [poll EXCEPT !.at = "void", !.seen = "placed"]
             /\ UNCHANGED <<chain, late, run, asked, stepper, checking, watch, manual, page, fate>>
    <3>1. PollInv' /\ poll'.bet = poll.bet
      BY <2>3 DEF ShownInv, PollInv
    <3> QED BY <1>2, <1>3, <2>1, <2>3, <3>1, SameRound
  <2> QED BY <1>6, <2>2, <2>3 DEF PollBet
<1>7. CASE PollVoid
  <2>1. poll # NoPoll
    BY <1>7 DEF PollVoid, NoPoll
  <2>2. PICK known : Snapshot(poll.seen, known)
    BY <1>7, Zenon DEF PollVoid
  <2>3. UNCHANGED chain
    BY <2>2 DEF Snapshot
  <2>4. poll.seen \notin Terminal
    BY DEF ShownInv, PollInv, Terminal
  <2> QED BY <2>1, <2>2, <2>3, <2>4, SnapshotShows
<1> QED BY <1>4, <1>5, <1>6, <1>7

LEMMA OfferShows ==
  ASSUME RoomInv, ShownInv, RoomInv', ClickSettle \/ ClickRefund
  PROVE  ShownInv' /\ TellsNothing
<1>1. PICK phase : watch' = [watch EXCEPT !.phase = phase]
  BY DEF ClickSettle, ClickRefund, Offer
<1>2. watch'.bet = watch.bet
  BY <1>1, RoundFields DEF WatchFields
<1>3. UNCHANGED <<chain, run, asked, stepper, poll, page, fate>>
  BY DEF ClickSettle, ClickRefund, Offer
<1>4. OverStays /\ PollInv' /\ (run \in {"wallet", "receipt"} => fate[asked] = "unknown")
  BY <1>3, RoundFields DEF OverStays, ShownInv, PollInv, FreshInv
<1> QED BY <1>2, <1>3, <1>4, SameRound

LEMMA RevealShows ==
  ASSUME RoomInv, ShownInv, RoomInv', OutcomeAnswer \/ RevealEnds
  PROVE  ShownInv' /\ TellsNothing
<1>1. UNCHANGED <<chain, run, asked>>
  BY DEF OutcomeAnswer, RevealEnds
<1>2. OverStays
  BY <1>1, RoundFields DEF OverStays
<1> DEFINE Same(p) ==
             /\ DOMAIN p = PageFields /\ DOMAIN p.reveal = {"bet", "phase"} /\ p.pending \in BOOLEAN
             /\ p.shown = page.shown /\ p.displayed = page.displayed /\ p.latest = page.latest
             /\ p.terminal = page.terminal
             /\ (p.pending = page.pending /\ p.reveal = page.reveal) \/ p.reveal # NoReveal
<1>3. PICK p : Commit(p, watch, poll) /\ Same(p)
  <2> DEFINE p1 == [page EXCEPT !.outcome = NoBet]
             p2(phase) == [page EXCEPT !.outcome = NoBet, !.revealed = page.outcome, !.pending = FALSE,
                                       !.reveal = [bet |-> page.outcome, phase |-> phase]]
             p3 == [page EXCEPT !.reveal.phase = "revealed"]
  <2>1. Same(p1)
    BY PageAsItIs DEF PageFields
  <2>2. page.outcome # NoBet => \A phase : Same(p2(phase))
    <3> SUFFICES ASSUME page.outcome # NoBet, NEW phase PROVE Same(p2(phase))
      OBVIOUS
    <3>1. [bet |-> page.outcome, phase |-> phase] # NoReveal
      BY DEF NoReveal
    <3>2. p2(phase).reveal = [bet |-> page.outcome, phase |-> phase]
      BY PageAsItIs DEF PageFields
    <3> QED BY <3>1, <3>2, PageAsItIs DEF PageFields
  <2>3. Same(p3)
    <3>1. p3 = [page EXCEPT !.reveal = [page.reveal EXCEPT !.phase = "revealed"]]
      BY PageAsItIs DEF PageFields
    <3>2. p3.reveal = [page.reveal EXCEPT !.phase = "revealed"]
      BY <3>1, PageAsItIs DEF PageFields
    <3>3. p3.reveal.phase = "revealed" /\ DOMAIN p3.reveal = {"bet", "phase"}
      BY <3>2, PageAsItIs
    <3>4. p3.reveal # NoReveal
      BY <3>3 DEF NoReveal
    <3> QED BY <3>1, <3>3, <3>4, PageAsItIs DEF PageFields
  <2>4. \/ Commit(p1, watch, poll) \/ Commit(p3, watch, poll)
        \/ page.outcome # NoBet /\ \E phase : Commit(p2(phase), watch, poll)
    BY Zenon DEF OutcomeAnswer, RevealEnds
  <2> HIDE DEF p1, p2, p3, Same
  <2> QED BY <2>1, <2>2, <2>3, <2>4
<1> QED BY <1>1, <1>2, <1>3, PageAsItIs, RoundFields, CommitShows

\* The player closes the result.
LEMMA CloseShows ==
  ASSUME RoomInv, ShownInv, RoomInv', CloseResult
  PROVE  ShownInv' /\ TellsNothing
<1>1. /\ UNCHANGED <<chain, run, asked, stepper, watch, poll, fate>>
      /\ page.shown /\ page' = ResultClose(page)
  BY DEF CloseResult, stepVars
<1>2. /\ DOMAIN page' = PageFields /\ page'.terminal = page.terminal /\ page'.latest = page.latest
      /\ page'.displayed = page.displayed /\ page'.pending = page.pending /\ page'.shown = FALSE
      /\ page'.reveal = NoReveal
  BY <1>1, PageAsItIs DEF ResultClose, PageFields
<1>3. stepper.status = "idle" /\ page.terminal \in {NoBet, page.displayed}
  BY <1>1 DEF ShownInv, StageOf
<1>4. StageOf(page', stepper.status)
  BY <1>2, <1>3, PageAsItIs DEF StageOf, NoReveal
<1>5. PollInv' /\ FollowInv' /\ FreshInv' /\ TellInv'
  BY <1>1, <1>2, <1>3 DEF ShownInv, PollInv, FollowInv, FreshInv, TellInv
<1>6. TellsNothing
  BY <1>1 DEF TellsNothing
<1> QED BY <1>1, <1>4, <1>5, <1>6 DEF ShownInv

-----------------------------------------------------------------------------
\* A step of ResultIsShownOnce.
TellStep ==
    \A b \in Bets :
        /\ fate'[b] = "told" /\ fate[b] # "told" => fate[b] = "bound" /\ chain[b] \in Terminal
        /\ ~page.shown /\ page'.shown /\ page'.displayed = b => fate[b] # "told"
        /\ fate[b] = "told" => fate'[b] = "told"

LEMMA ResultShows ==
  ASSUME RoomInv, ShownInv, RoomInv', ShowResult
  PROVE  ShownInv' /\ TellStep
<1> DEFINE b == page.terminal
<1>1. /\ UNCHANGED <<chain, run, asked, stepper, watch, poll>>
      /\ b # NoBet /\ Resolving(page) = b /\ page.displayed # b
      /\ page' = [page EXCEPT !.displayed = b, !.pending = FALSE, !.shown = TRUE]
      /\ fate' = [fate EXCEPT ![b] = "told"]
  BY ResolvingTable DEF ShowResult, stepVars
<1>2. /\ b \in Bets /\ chain[b] \in Terminal /\ fate[b] = "bound"
  BY <1>1 DEF ShownInv, TellInv
<1>3. /\ stepper.status = "idle" /\ stepper.hash = NoBet /\ run = "none" /\ page.latest = b
  <2>1. stepper.status = "idle"
    BY <1>1 DEF ShownInv, StageOf
  <2> QED BY <1>1, <2>1, RoundFields, StepperFacts DEF ShownInv, FreshInv
<1>4. /\ fate'[b] = "told" /\ \A n \in Bets : n # b => fate'[n] = fate[n]
  BY <1>1, <1>2, RoundFields
<1>5. /\ DOMAIN page' = PageFields /\ page'.terminal = b /\ page'.latest = page.latest
      /\ page'.displayed = b /\ page'.pending = FALSE /\ page'.shown = TRUE /\ page'.reveal = page.reveal
  BY <1>1, PageAsItIs DEF PageFields
<1>6. StageOf(page', stepper.status)
  BY <1>3, <1>5, PageAsItIs DEF StageOf
<1>7. PollInv' /\ FollowInv'
  BY <1>1, <1>3 DEF ShownInv, PollInv, FollowInv
<1>8. TellInv'
  BY <1>1, <1>2, <1>3, <1>5 DEF TellInv
<1>9. FreshInv'
  BY <1>1, <1>2, <1>3, <1>4, <1>5 DEF ShownInv, FreshInv
<1>10. TellStep
  BY <1>2, <1>4, <1>5 DEF TellStep
<1> QED BY <1>1, <1>6, <1>7, <1>8, <1>9, <1>10 DEF ShownInv

LEMMA ShownStep ==
  ASSUME RoomInv, ShownInv, [Next]_vars
  PROVE  RoomInv' /\ ShownInv' /\ TellStep
<1>1. RoomInv'
  BY RoomStep
<1>2. TellsNothing => TellStep
  BY DEF TellsNothing, TellStep
<1>3. CASE UNCHANGED vars
  <2>1. UNCHANGED <<chain, run, asked, stepper, watch, poll, page, fate>>
    BY <1>3 DEF vars, stepVars
  <2>2. OverStays /\ PollInv' /\ (run \in {"wallet", "receipt"} => fate[asked] = "unknown")
    BY <2>1, RoundFields DEF OverStays, ShownInv, PollInv, FreshInv
  <2> QED BY <1>1, <1>2, <2>1, <2>2, SameRound
<1>4. CASE Next
  <2>1. CASE ShowResult
    BY <1>1, <2>1, ResultShows
  <2>2. CASE ~ShowResult
    BY <1>1, <1>2, <1>4, <2>2, ChainShows, ManualShows, ClickShows, CloseShows, RunShows, ReceiptShows, CheckShows,
       PollShows, OfferShows, RevealShows DEF Next
  <2> QED BY <2>1, <2>2
<1> QED BY <1>3, <1>4

\* A result is shown of a bet that is over, to a player who still follows it, and once: no
\* answer that comes later shows it again or turns it into a notice
\* (useGameResolutionEffect over the watcher, the stepper and the stage).
THEOREM ResultsAreShownOnce == Spec => ResultIsShownOnce
<1>1. Init => RoomInv /\ ShownInv
  BY RoomInit, ShownInit
<1>2. RoomInv /\ ShownInv /\ [Next]_vars => (RoomInv /\ ShownInv)' /\ TellStep
  BY ShownStep
<1>3. ResultIsShownOnce <=> [][TellStep]_vars
  BY DEF ResultIsShownOnce, TellStep
<1> QED BY <1>1, <1>2, <1>3, PTL DEF Spec

================================================================================
