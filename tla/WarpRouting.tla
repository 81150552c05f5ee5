------------------------------ MODULE WarpRouting ------------------------------
(***************************************************************************)
(* WARP: the WireGuard service slipgate-warp, its configuration and the    *)
(* kernel's policy rules that send the traffic of some users through it    *)
(* (internal/warp/warp.go).                                                *)
(*                                                                         *)
(* A rule is represented by the account whose uid it names; uids are not   *)
(* used again.  The host has one public address, which does not change.    *)
(* Not modelled: key material and registration beyond their failure, the   *)
(* resolvers, and the accounts of NaiveProxy, which have no rule.          *)
(***************************************************************************)
EXTENDS FiniteSets

CONSTANTS
  Accounts,     \* accounts of users
  SocksUser,    \* the account slipgate-socks
  NoConf        \* no wg0.conf: IsSetUp is false

Uids == Accounts \cup {SocksUser}

ASSUME WarpAssumption == SocksUser \notin Accounts /\ \A uids \in SUBSET Uids : uids # NoConf

VARIABLES
  wgConf,       \* wg0.conf: the accounts its PostUp and PostDown lines name
  wgUnit,       \* the unit file of slipgate-warp exists
  wgUp,         \* the service is active
  liveRules,    \* accounts with a rule in the kernel
  publicRule,   \* the rule that keeps answers from the public address out of WARP
  socksAccount  \* the account slipgate-socks exists

warpVars == <<wgConf, wgUnit, wgUp, liveRules, publicRule, socksAccount>>

IsSetUp == wgConf # NoConf

\* collectUserUIDs, for the configured users that have an account.
UserUIDs(accounts) == accounts \cup (IF socksAccount THEN {SocksUser} ELSE {})

-------------------------------------------------------------------------------
\* generateWgConf
WriteConf(accounts) ==
  /\ wgConf' = UserUIDs(accounts)
  /\ UNCHANGED <<wgUnit, wgUp, liveRules, publicRule, socksAccount>>

\* syncLiveRules and ensurePublicAddrRules, when WARP runs.
FaultySyncRules(accounts) ==
  /\ liveRules' = IF wgUp THEN liveRules \cup UserUIDs(accounts) ELSE liveRules
  /\ publicRule' = (publicRule \/ wgUp)
  /\ UNCHANGED <<wgConf, wgUnit, wgUp, socksAccount>>

SyncRules(accounts) ==
  /\ liveRules' = IF wgUp THEN UserUIDs(accounts) ELSE liveRules
  /\ publicRule' = (publicRule \/ wgUp)
  /\ UNCHANGED <<wgConf, wgUnit, wgUp, socksAccount>>

\* Some of the calls of ip rule fail, or the list cannot be read.
SyncPartly(accounts) ==
  /\ wgUp
  /\ liveRules' \in {rules \in SUBSET Uids :
       /\ liveRules \cap UserUIDs(accounts) \subseteq rules
       /\ rules \subseteq liveRules \cup UserUIDs(accounts)}
  /\ publicRule' \in {publicRule, TRUE}
  /\ UNCHANGED <<wgConf, wgUnit, wgUp, socksAccount>>

\* systemctl start.  wg-quick adds the rules one by one and gives up at one that
\* exists; the rules it has added stay.  The public address's rule may exist.
CanStart == wgUnit /\ liveRules \cap wgConf = {}

WgQuickUp ==
  /\ ~wgUp /\ CanStart
  /\ wgUp' = TRUE /\ liveRules' = liveRules \cup wgConf /\ publicRule' = TRUE

WgQuickUpFails ==
  /\ ~wgUp /\ wgUp' = FALSE
  /\ liveRules' \in {liveRules \cup added : added \in IF wgUnit THEN SUBSET wgConf ELSE {{}}}
  /\ publicRule' \in {publicRule, TRUE}

\* systemctl stop.  wg-quick deletes the rules of the file as it is now, and gives
\* up at one that is missing.
WgQuickDown ==
  /\ wgUp' = FALSE
  /\ IF wgUp /\ IsSetUp
     THEN /\ publicRule' = FALSE
          /\ IF wgConf \subseteq liveRules THEN liveRules' = liveRules \ wgConf
             ELSE liveRules' \in {liveRules \ deleted : deleted \in SUBSET wgConf}
     ELSE UNCHANGED <<liveRules, publicRule>>

\* flushRoutingRules deletes what is left, whoever it belongs to.
FlushRules == liveRules' = {} /\ publicRule' = FALSE

FlushPartly == liveRules' \in SUBSET liveRules /\ publicRule' \in {publicRule, FALSE}

WarpInit ==
  /\ wgConf = NoConf /\ wgUnit = FALSE /\ wgUp = FALSE /\ liveRules = {}
  /\ publicRule = FALSE /\ socksAccount = FALSE
===============================================================================
