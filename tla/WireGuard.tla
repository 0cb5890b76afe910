----------------------------- MODULE WireGuard -----------------------------
(***************************************************************************)
(* The VPN of the dictaphone (voice_wireguard.c): a task looks at the      *)
(* station and at the setup access point, and a callback on lwIP's thread  *)
(* opens the tunnel, keeps it or takes it down.  The main loop only reads  *)
(* the state: recording is allowed when it is "disabled" or "connected".   *)
(*                                                                         *)
(* An address is a number, 0 for none; the tunnel is the address of the    *)
(* station it was opened on.  The library, SNTP and the peer are external. *)
(***************************************************************************)
EXTENDS Naturals

CONSTANT Clashing      \* addresses in the subnet of the tunnel

VARIABLES
  enabled,             \* settings.enabled
  state,
  previous_ip,
  connecting,
  tunnel,              \* external: the tunnel and the default route through it
  clock_set,           \* external: SNTP has answered
  network,             \* network_t: what the task has last seen
  worker               \* where the task, or the tick it waits for, has come to

wgVars == << enabled, state, previous_ip, connecting, tunnel,
             clock_set, network, worker >>

States == {"disabled", "waiting_wifi", "waiting_time", "connecting",
           "connected", "error", "subnet_conflict", "paused_setup"}

Ready == state \in {"disabled", "connected"}

\* voice_wireguard_start: the task may fail to start, or SNTP to be set up.
WgInit ==
  /\ enabled \in BOOLEAN
  /\ previous_ip = 0 /\ connecting = FALSE /\ tunnel = 0
  /\ clock_set = FALSE
  /\ network = [online |-> FALSE, setup_ap |-> FALSE, ip |-> 0]
  /\ \/ ~enabled /\ state = "disabled" /\ worker = "dead"
     \/ enabled /\ state = "waiting_wifi" /\ worker = "reading"
     \/ enabled /\ state = "error" /\ worker = "dead"

\* One round of the task up to the tick.
Look(online, setup_ap, ip) ==
  /\ worker = "reading"
  /\ network' = [online |-> online, setup_ap |-> setup_ap, ip |-> ip]
  /\ worker' = "tick"
  /\ UNCHANGED << enabled, state, previous_ip, connecting, tunnel, clock_set >>

\* SNTP is started whenever the station has come online.
ClockSet ==
  /\ network.online /\ ~clock_set
  /\ clock_set' = TRUE
  /\ UNCHANGED << enabled, state, previous_ip, connecting, tunnel,
                  network, worker >>

ShouldConnect == network.online /\ ~network.setup_ap

Clashes == network.ip \in Clashing

Paused == IF network.setup_ap THEN "paused_setup" ELSE "waiting_wifi"

\* One step of tick: where it goes on and what it stores in the atomic state, which
\* other tasks read in between.
Step(next, new) ==
  /\ worker' = next /\ state' = new
  /\ UNCHANGED << enabled, clock_set, network >>

Keeps == UNCHANGED << tunnel, connecting, previous_ip >>

TakenDown(ip) == tunnel' = 0 /\ connecting' = FALSE /\ previous_ip' = ip

\* No station, or the setup network: the tunnel goes first, the state follows.
Disconnect ==
  /\ worker = "tick" /\ ~ShouldConnect
  /\ IF connecting \/ state # Paused THEN TakenDown(0)
     ELSE connecting' = FALSE /\ previous_ip' = 0 /\ UNCHANGED tunnel
  /\ Step("pausing", state)

StandDown == worker = "pausing" /\ Step("reading", Paused) /\ Keeps

\* Slip: the address of the station is not compared.
AnyAddress == TRUE

SameAddress == previous_ip = network.ip

\* A clash, or a new address: the state is stored first, and then what was opened
\* on the old address goes.
LeaveAddress ==
  /\ worker = "tick" /\ ShouldConnect /\ (Clashes \/ ~SameAddress)
  /\ Step("dropping", IF Clashes THEN "subnet_conflict" ELSE "waiting_wifi") /\ Keeps

DropTunnel ==
  /\ worker = "dropping"
  /\ Step(IF Clashes THEN "reading" ELSE "checked", state) /\ TakenDown(network.ip)

Checked ==
  \/ worker = "tick" /\ ShouldConnect /\ ~Clashes /\ SameAddress
  \/ worker = "checked"

WaitForTime == Checked /\ ~clock_set /\ Step("reading", "waiting_time") /\ Keeps

BeginOpen ==
  /\ Checked /\ clock_set /\ ~connecting
  /\ Step("opening", "connecting") /\ Keeps

\* Connected and routed; or a name that is still being resolved.
Open ==
  /\ worker = "opening"
  /\ \/ /\ Step("asking", state)
        /\ tunnel' = network.ip /\ connecting' = TRUE /\ UNCHANGED previous_ip
     \/ Step("reading", state) /\ Keeps

\* An error in one of the calls, from esp_wireguard_init on; Undo takes back what
\* the others have done.
OpenFails ==
  /\ (Checked /\ clock_set /\ ~connecting) \/ worker = "opening"
  /\ Step("undoing", "error") /\ Keeps

Undo == worker = "undoing" /\ Step("reading", state) /\ TakenDown(previous_ip)

\* esp_wireguard_peer_is_up.
AskPeer ==
  /\ (Checked /\ clock_set /\ connecting) \/ worker = "asking"
  /\ \E new \in {"connecting", "connected"} : Step("reading", new) /\ Keeps

\* tcpip_callback_wait fails: the tick does not run.
TickLost == worker = "tick" /\ Step("reading", "error") /\ Keeps

WgTick ==
  \/ Disconnect \/ StandDown \/ LeaveAddress \/ DropTunnel
  \/ WaitForTime \/ BeginOpen \/ Open \/ Undo \/ AskPeer

-----------------------------------------------------------------------------
\* Every variable keeps to its type.
WgTypeOK ==
  /\ state \in States /\ network.ip \in Nat
  /\ worker \in {"reading", "tick", "pausing", "dropping", "checked", "opening",
                 "undoing", "asking", "dead"}
  /\ {enabled, connecting, clock_set} \subseteq BOOLEAN
  /\ {tunnel, previous_ip} \subseteq Nat

(* Recording is allowed only behind the VPN that the settings ask for: the *)
(* status "connected" is shown, and a turn started, only with a tunnel, at *)
(* every step of every tick but one.  When the station goes or the setup   *)
(* network comes the tunnel is taken down before the state is stored, and  *)
(* "connected" is shown without one until it is.  And a round that saw the *)
(* setup network, another address or an address in the tunnel's own subnet *)
(* leaves no tunnel, unless the round itself was lost                      *)
(* (voice_wireguard.c:57-115, ready 43-46).                                *)
ReadyMeansTunnel ==
  /\ enabled /\ Ready /\ worker # "pausing" => tunnel # 0 /\ connecting
  /\ tunnel # 0 => tunnel = previous_ip /\ tunnel \notin Clashing
  /\ worker = "reading" /\ tunnel # 0 /\ state # "error"
       => ~network.setup_ap /\ tunnel = network.ip
=============================================================================
