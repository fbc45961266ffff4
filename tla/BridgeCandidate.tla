--------------------------- MODULE BridgeCandidate ---------------------------
(***************************************************************************)
(* resolveRobinhoodMainnetWrappedBtc                                       *)
(* (packages/config/tooling/wrapped-btc-bridge.ts): which token represents *)
(* wrapped Bitcoin, and who controls the bridge that mints it, derived     *)
(* from some thirty reads at one block NUMBER.  Reads of one Promise.all   *)
(* are answered in any order, and between any two answers the block under  *)
(* that number may be replaced by another.                                 *)
(*                                                                         *)
(* A fact is what one read returns: <<address, field>> names it.  Symbol,  *)
(* name, decimals and supply of the token are one fact, "identity"; the    *)
(* two role getters of the owner are one, "roles"; both are Valid or not.  *)
(* A fact read again replaces the earlier answer, and the implementations  *)
(* of two proxies resolved together are read after the slots of both.      *)
(***************************************************************************)
EXTENDS Naturals, Sequences

CONSTANTS Addresses, Zero,   \* accounts, the zero address
          Router, L1Token,   \* constants of the module
          Valid,             \* code is there, an identity or the roles are right
          Canonical,         \* facts of a sound bridge
          Flaws,             \* bound: facts of which one may differ from it at first
          Changing,          \* bound: facts of which a reorganisation may change one
          MaxReorgs          \* bound

Fields == {"token", "gateway", "identity", "l1", "beacon", "impl", "admin", "owner", "roles", "implementation", "code"}
Facts == Addresses \X Fields
Value == Addresses \cup {Zero, Valid}

BridgeAssumption ==
  /\ Router \in Addresses /\ L1Token \in Addresses /\ Zero \notin Addresses /\ Valid \notin Addresses
  /\ Canonical \in [Facts -> Value] /\ MaxReorgs \in Nat /\ Flaws \cup Changing \subseteq Facts

VARIABLES worlds,    \* the facts at the block, by the version of the block; the last is current
          step,      \* what the tool is waiting for
          version,   \* the version whose hash the tool read first
          pending,   \* reads without an answer
          seen       \* facts read

vars == <<worlds, step, version, pending, seen>>

Current == worlds[Len(worlds)]
\* The worlds that differ from w in one of the facts ks, at most.
Altered(w, ks) == {[w EXCEPT ![k] = v] : k \in ks, v \in Value}

Init == /\ \E w \in {Canonical} \cup Altered(Canonical, Flaws) : worlds = <<w>>
        /\ step = "block" /\ version = 0 /\ pending = {} /\ seen = [k \in {} |-> Zero]

Reorganise == /\ Len(worlds) <= MaxReorgs
              /\ \E w \in Altered(Current, Changing) : worlds' = Append(worlds, w)
              /\ UNCHANGED <<step, version, pending, seen>>

-----------------------------------------------------------------------------
Codes(as) == as \X {"code"}
Slots(p) == {p} \X {"impl", "admin", "beacon"}
Token == seen[<<Router, "token">>]
Gateway == seen[<<Router, "gateway">>]
SharedAdmin == seen[<<Router, "admin">>]
Owner == seen[<<SharedAdmin, "owner">>]
Beacon == seen[<<Token, "beacon">>]

Ask(s, ks) == step' = s /\ pending' = ks /\ UNCHANGED <<worlds, version, seen>>
Reject == step' = "rejected" /\ pending' = {} /\ UNCHANGED <<worlds, version, seen>>
Require(condition, s, ks) == IF condition THEN Ask(s, ks) ELSE Reject

ReadBlock == /\ step = "block" /\ version' = Len(worlds)
             /\ step' = "token" /\ pending' = {<<Router, "token">>} /\ UNCHANGED <<worlds, seen>>

\* A read that must give an account gives one, code is there.
Acceptable(k, v) ==
  CASE k[2] \in {"token", "gateway", "impl", "admin", "owner", "implementation"} -> v \in Addresses
    [] k[2] = "beacon" -> v # Valid
    [] k[2] \in {"code", "identity", "roles"} -> v = Valid
    [] k[2] = "l1" -> v = L1Token

Answer(k) ==
  /\ k \in pending
  /\ seen' = [j \in DOMAIN seen \cup {k} |-> IF j = k THEN Current[k] ELSE seen[j]]
  /\ IF Acceptable(k, Current[k]) THEN pending' = pending \ {k} /\ UNCHANGED step
                                  ELSE pending' = {} /\ step' = "rejected"
  /\ UNCHANGED <<worlds, version>>

\* The slots of the proxy p are read: it is no beacon proxy, its implementation has code.
ResolveTransparentProxy(p) ==
  /\ seen[<<p, "beacon">>] = Zero
  /\ seen[<<p, "impl">>] \in Addresses

DeriveToken == step = "token" /\ pending = {} /\ Ask("gateway", {<<Router, "gateway">>})

DeriveGateway ==
  /\ step = "gateway" /\ pending = {}
  /\ Ask("parts", Codes({Router, Gateway, Token}) \cup ({Token} \X {"identity", "l1", "gateway", "beacon"}))

CheckParts == /\ step = "parts" /\ pending = {}
              /\ Require(seen[<<Token, "gateway">>] = Gateway, "proxies", Slots(Router) \cup Slots(Gateway))

ReadImplementations ==
  /\ step = "proxies" /\ pending = {}
  /\ Require(\A p \in {Router, Gateway} : ResolveTransparentProxy(p), "proxyCodes",
             Codes({seen[<<Router, "impl">>], seen[<<Gateway, "impl">>]}))

CheckSharedAdmin == /\ step = "proxyCodes" /\ pending = {}
                    /\ Require(seen[<<Gateway, "admin">>] = SharedAdmin, "admin", Codes({SharedAdmin}))

ReadOwner == step = "admin" /\ pending = {} /\ Ask("owner", {<<SharedAdmin, "owner">>})
ReadOwnerCode == step = "owner" /\ pending = {} /\ Ask("ownerCode", Codes({Owner}))
ReadOwnerProxy == step = "ownerCode" /\ pending = {} /\ Ask("ownerProxy", Slots(Owner) \cup {<<Owner, "roles">>})

ReadOwnerImplementation ==
  /\ step = "ownerProxy" /\ pending = {}
  /\ Require(ResolveTransparentProxy(Owner), "ownerImpl", Codes({seen[<<Owner, "impl">>]}))

CheckOwner == /\ step = "ownerImpl" /\ pending = {}
              /\ Require(seen[<<Owner, "admin">>] = SharedAdmin /\ Beacon # Zero, "beaconCode", Codes({Beacon}))

ReadImplementation == step = "beaconCode" /\ pending = {} /\ Ask("implementation", {<<Beacon, "implementation">>})
ReadImplementationCode == /\ step = "implementation" /\ pending = {}
                          /\ Ask("last", Codes({seen[<<Beacon, "implementation">>]}))

ReadBlockAgain == step = "last" /\ pending = {} /\ Require(Len(worlds) = version, "resolved", {})

RequestFails == step \notin {"resolved", "rejected"} /\ Reject

Resolver == \/ ReadBlock \/ (\E k \in pending : Answer(k)) \/ RequestFails
            \/ DeriveToken \/ DeriveGateway \/ CheckParts \/ ReadImplementations \/ CheckSharedAdmin
            \/ ReadOwner \/ ReadOwnerCode \/ ReadOwnerProxy \/ ReadOwnerImplementation \/ CheckOwner
            \/ ReadImplementation \/ ReadImplementationCode \/ ReadBlockAgain
Next == Resolver \/ Reorganise
Spec == Init /\ [][Next]_vars

-----------------------------------------------------------------------------
(* A candidate is an observation of one block: every fact in it holds in   *)
(* the version of the block whose hash it names ("exactBlockStable").      *)
FactsAreOfOneBlock ==
  step = "resolved" => \A k \in DOMAIN seen : seen[k] = worlds[version][k]

(* "controlPlaneTopologyMatches": in the block a candidate names, one      *)
(* admin with code controls the router, the gateway of the token and the   *)
(* admin's own owner, none of them is a beacon proxy, and everything the   *)
(* three of them and the token run has code.                               *)
OneControlPlane ==
  step = "resolved" =>
    LET w == worlds[version]
        gateway == w[<<Router, "gateway">>]  token == w[<<Router, "token">>]
        admin == w[<<Router, "admin">>]
        proxies == {Router, gateway, w[<<admin, "owner">>]}
        runs == {admin, token, w[<<token, "beacon">>], w[<<w[<<token, "beacon">>], "implementation">>]}
    IN  /\ w[<<token, "gateway">>] = gateway /\ w[<<token, "l1">>] = L1Token
        /\ \A p \in proxies : w[<<p, "admin">>] = admin /\ w[<<p, "beacon">>] = Zero
        /\ \A a \in runs \cup proxies \cup {w[<<p, "impl">>] : p \in proxies} : w[<<a, "code">>] = Valid

=============================================================================
