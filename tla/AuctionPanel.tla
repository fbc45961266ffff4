----------------------------- MODULE AuctionPanel -----------------------------
(***************************************************************************)
(* The landing page's model of one acquisition auction                     *)
(* (apps/landing/lib/models/auction.ts): a lot is sold when the falling ask*)
(* meets what it is worth, nine tenths of the payment go to the fund's     *)
(* vessel and one to the signalers', and both are drawn against one ruler  *)
(* that grows with a payment that would not fit.                           *)
(*                                                                         *)
(* Amounts are hundredths of a QQQ. What the lot fetches is a parameter;   *)
(* the lot, the falling ask, the coins, the drops and the receipt are left *)
(* out.  The signalers' vessel is a ninth of the fund's on the same ruler, *)
(* so one level stands for both.  The payment beat is drawn in quarters of *)
(* its eased progress, of which a frame may skip any number; the surface   *)
(* and the ruler on screen are kept in quarters too, so that no            *)
(* interpolation rounds.                                                   *)
(***************************************************************************)
EXTENDS Naturals

CONSTANTS Payments,     \* what a lot may fetch
          CAP0,         \* where the ruler opens
          MaxEpoch      \* bound on the auctions run

AuctionPanelAssumption ==
  /\ Payments \subseteq Nat \ {0}
  /\ CAP0 \in Nat \ {0} /\ MaxEpoch \in Nat

FILL_TRIG == 920        \* thousandths of the ruler
FILL_MAX == 985
CLOSE == 3              \* tenths of what is left below the rim
Quarters == 4

VARIABLES phase,                 \* "open" or "trade"
          u,                     \* progress of the payment beat, in quarters
          epoch,
          fundTotal, fundShown,  \* the second in quarters
          cap, capTo, capShown,  \* the third in quarters
          payFund0, payCap0      \* what was on screen when the lot was sold, in quarters

vars == <<phase, u, epoch, fundTotal, fundShown, cap, capTo, capShown, payFund0, payCap0>>

AuctionTypeOK ==
  /\ phase \in {"open", "trade"} /\ u \in 0..Quarters
  /\ epoch \in 1..MaxEpoch
  /\ {fundTotal, fundShown, payFund0} \subseteq Nat
  /\ {cap, capTo, capShown, payCap0} \subseteq Nat \ {0}
  /\ cap <= capTo
  /\ phase = "open" =>
       /\ cap = capTo /\ capShown = Quarters * cap
       /\ fundShown = Quarters * fundTotal

(* A level is a share of the ruler, in thousandths.                         *)
Level(amount, ruler) == (amount * 1000) \div ruler

ToFund(paid) == (paid * 9) \div 10

(* seedHistory: the vessel a reader meets holds one settled lot.            *)
Seeded(paid) ==
  [fundTotal |-> ToFund(paid), fundShown |-> Quarters * ToFund(paid)]

Init ==
  /\ phase = "open" /\ u = 0 /\ epoch = 1
  /\ cap = CAP0 /\ capTo = CAP0 /\ capShown = Quarters * CAP0
  /\ payFund0 = 0 /\ payCap0 = Quarters * CAP0
  /\ \E paid \in Payments :
       /\ fundTotal = Seeded(paid).fundTotal
       /\ fundShown = Seeded(paid).fundShown

(* A reader who was away for long meets a fresh panel.                      *)
SeedHistory ==
  /\ phase' = "open" /\ epoch' = 1
  /\ cap' = CAP0 /\ capTo' = CAP0 /\ capShown' = Quarters * CAP0
  /\ \E paid \in Payments :
       /\ fundTotal' = Seeded(paid).fundTotal
       /\ fundShown' = Seeded(paid).fundShown
  /\ UNCHANGED <<u, payFund0, payCap0>>

-----------------------------------------------------------------------------
(* Where the ruler goes on this payment: nowhere if the total fits, else to *)
(* where the new surface stands a part of the way from the surface on       *)
(* screen to the rim.                                                       *)
CapTo(total) ==
  LET pre == Level(payFund0', payCap0')
      raised == pre + (CLOSE * (1000 - pre)) \div 10
      post == IF raised > FILL_MAX THEN FILL_MAX ELSE raised
      fitting == (total * 1000) \div post
  IN  IF total * 1000 > cap * FILL_TRIG
        THEN IF fitting > cap THEN fitting ELSE cap
        ELSE cap

(* fill(): the ask has met what the lot is worth.                           *)
Fill(paid) ==
  /\ phase = "open" /\ epoch < MaxEpoch
  /\ phase' = "trade" /\ u' = 0 /\ epoch' = epoch + 1
  /\ fundTotal' = fundTotal + ToFund(paid)
  /\ payFund0' = fundShown /\ payCap0' = capShown
  /\ capTo' = CapTo(fundTotal')
  /\ UNCHANGED <<fundShown, cap, capShown>>

(* Surface and ruler run on one progress.                                   *)
RulerAt(v) == payCap0 + (capTo - payCap0 \div Quarters) * v

SurfaceAt(v) == payFund0 + (fundTotal - payFund0 \div Quarters) * v

(* aucStep during the trade: the beat goes on, by as much as the frame takes*)
PaymentBeat(v) ==
  /\ phase = "trade" /\ v >= u
  /\ u' = v
  /\ fundShown' = SurfaceAt(v) /\ capShown' = RulerAt(v)
  /\ UNCHANGED <<phase, epoch, fundTotal, cap, capTo, payFund0, payCap0>>

Ceiling == capTo

(* ... and when the settle window is over the next auction is opened, also  *)
(* by a frame that was longer than what was left of it.                     *)
OpenAuction ==
  /\ phase = "trade"
  /\ phase' = "open"
  /\ fundShown' = Quarters * fundTotal
  /\ cap' = Ceiling /\ capShown' = Quarters * capTo
  /\ UNCHANGED <<u, epoch, fundTotal, capTo, payFund0, payCap0>>

Next ==
  \/ SeedHistory
  \/ \E paid \in Payments : Fill(paid)
  \/ \E v \in 0..Quarters : PaymentBeat(v)
  \/ OpenAuction

Spec == Init /\ [][Next]_vars

-----------------------------------------------------------------------------
(* "No frame in between can show the pile fall" (auction.ts:232-234): the   *)
(* surface on screen never falls against the ruler on screen, however the   *)
(* frames cut the beat, except where the panel starts afresh.               *)
PileNeverFalls ==
  SeedHistory \/ Level(fundShown', capShown') >= Level(fundShown, capShown)

(* The pile never reaches the rim: the largest total is still drawn.        *)
PileFits == Level(fundShown, capShown) <= FILL_MAX
=============================================================================
