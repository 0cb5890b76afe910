-------------------------- MODULE Network_proofs ---------------------------
(***************************************************************************)
(* For any profiles, addresses, times and clashing subnets: no recording   *)
(* without the VPN that the settings ask for, a flag that ends up telling  *)
(* the truth about the station, and a set-up page that has its scan.       *)
(* The station is online only with an address, so that a tunnel is open    *)
(* exactly while "connecting" is set, and on the address that the last     *)
(* round has kept.  The last event in the queue, or else the flag, always  *)
(* says where the station is.                                              *)
(***************************************************************************)
EXTENDS Network, TLAPS, FiniteSetTheorems, WellFoundedInduction

\* What every step of the VPN's task leaves for the next one.
WgInv ==
  /\ network.online => network.ip # 0
  /\ connecting \in BOOLEAN
  /\ connecting <=> tunnel # 0
  /\ tunnel # 0 => tunnel = previous_ip /\ tunnel \notin Clashing
  /\ enabled => state # "disabled"
  /\ enabled /\ state = "connected" /\ worker # "pausing" => connecting
  /\ worker = "reading" /\ tunnel # 0 /\ state # "error"
       => ~network.setup_ap /\ tunnel = network.ip
  /\ worker = "pausing" => ~connecting
  /\ worker = "undoing" => state = "error"
  /\ worker = "dropping" => ShouldConnect /\ state # "connected"
  /\ worker \in {"checked", "opening", "asking"} => ShouldConnect /\ ~Clashes /\ SameAddress
  /\ worker \in {"checked", "opening"} => ~connecting /\ state # "connected"
  /\ worker = "asking" => connecting

OnlineHasIp == station.at = "online" => station.ip # 0

TunnelInv == OnlineHasIp /\ WgInv

USE DEF vars, wifiVars, wgVars

LEMMA InitTunnel == Init => TunnelInv
<1>1. Init => OnlineHasIp
  BY DEF Init, Off, OnlineHasIp
<1>2. WgInit => WgInv
  <2> SUFFICES ASSUME WgInit PROVE WgInv
    OBVIOUS
  <2>1. ~network.online /\ connecting = FALSE /\ tunnel = 0
    BY DEF WgInit
  <2>2. enabled => state \notin {"disabled", "connected"}
    BY DEF WgInit
  <2>3. worker \notin {"pausing", "undoing", "dropping", "checked", "opening", "asking"}
    BY DEF WgInit
  <2> QED
    BY <2>1, <2>2, <2>3 DEF WgInv
<1> QED
  BY <1>1, <1>2, Zenon DEF Init, TunnelInv

\* The tick opens a tunnel on the address it was given and on no other, and none of
\* its steps but the disconnect leaves "connected" behind it.
LEMMA TickKeepsInv ==
  ASSUME WgInv, WgTick \/ OpenFails \/ TickLost
  PROVE  WgInv'
<1> USE DEF WgInv, Step, Keeps, TakenDown, ShouldConnect, Clashes, SameAddress
<1>1. CASE Disconnect
  BY <1>1 DEF Disconnect
<1>2. CASE StandDown
  BY <1>2 DEF StandDown, Paused
<1>3. CASE LeaveAddress
  BY <1>3 DEF LeaveAddress
<1>4. CASE DropTunnel
  BY <1>4 DEF DropTunnel
<1>5. CASE WaitForTime
  BY <1>5 DEF WaitForTime, Checked
<1>6. CASE BeginOpen
  BY <1>6 DEF BeginOpen, Checked
<1>7. CASE Open
  <2>1. CASE Step("asking", state) /\ tunnel' = network.ip /\ connecting' = TRUE
             /\ UNCHANGED previous_ip
    BY <1>7, <2>1 DEF Open
  <2>2. CASE Step("reading", state) /\ Keeps
    BY <1>7, <2>2 DEF Open
  <2> QED
    BY <1>7, <2>1, <2>2 DEF Open
<1>8. CASE OpenFails
  BY <1>8 DEF OpenFails, Checked
<1>9. CASE Undo
  BY <1>9 DEF Undo
<1>10. CASE AskPeer
  BY <1>10 DEF AskPeer, Checked
<1>11. CASE TickLost
  BY <1>11 DEF TickLost
<1> QED
  BY <1>1, <1>2, <1>3, <1>4, <1>5, <1>6, <1>7, <1>8, <1>9, <1>10, <1>11 DEF WgTick

\* The station gets its address in the step that brings it online.
LEMMA StationKeepsIp ==
  ASSUME OnlineHasIp, [Next]_vars
  PROVE  OnlineHasIp'
<1>1. CASE Manager
  BY <1>1 DEF Manager, ManagerSetup, ManagerAnnounces, ManagerSelects, ManagerConnects, Off, OnlineHasIp
<1>2. CASE WifiEvent \/ Period \/ ManualSetup \/ ScanStops \/ ScanEnds \/ PageAsks
             \/ ServerStarts \/ ServerReadsMode \/ WireGuardTask
  BY <1>2 DEF WifiEvent, Period, ManualSetup, ScanStops, ScanEnds, PageAsks,
              ServerStarts, ServerReadsMode, WireGuardTask, OnlineHasIp
<1>3. CASE ScanStarts
  BY <1>3 DEF ScanStarts, Off, OnlineHasIp
<1>4. CASE Associates
  <2>1. station'.at # "online"
    BY <1>4 DEF Associates
  <2> QED
    BY <2>1 DEF OnlineHasIp
<1>5. CASE GetsIp
  <2>1. PICK ip \in Addresses : station' = [station EXCEPT !.at = "online", !.ip = ip]
    BY <1>5 DEF GetsIp
  <2> QED
    BY <2>1, NetworkAssumption DEF OnlineHasIp
<1>6. CASE Loses
  BY <1>6 DEF Loses, Off, OnlineHasIp
<1>7. CASE UNCHANGED vars
  BY <1>7 DEF OnlineHasIp
<1> QED
  BY <1>1, <1>2, <1>3, <1>4, <1>5, <1>6, <1>7 DEF Next

LEMMA StepTunnel ==
  ASSUME TunnelInv, [Next]_vars
  PROVE  TunnelInv'
<1>1. OnlineHasIp'
  BY StationKeepsIp DEF TunnelInv
<1>2. CASE WireGuardTask
  <2>1. CASE WgTick \/ OpenFails \/ TickLost
    BY <1>1, <2>1, TickKeepsInv DEF TunnelInv
  <2>2. CASE Look(station.at = "online", mode = "apsta", station.ip)
    BY <1>1, <2>2 DEF Look, TunnelInv, OnlineHasIp, WgInv
  <2>3. CASE ClockSet
    BY <1>1, <2>3 DEF ClockSet, TunnelInv, WgInv, ShouldConnect, Clashes, SameAddress
  <2> QED
    BY <1>2, <2>1, <2>2, <2>3 DEF WireGuardTask
<1>3. CASE UNCHANGED wgVars
  BY <1>1, <1>3 DEF TunnelInv, WgInv, ShouldConnect, Clashes, SameAddress
<1>4. Manager => UNCHANGED wgVars
  BY DEF Manager, ManagerSetup, ManagerAnnounces, ManagerSelects, ManagerConnects
<1>5. Next /\ ~Manager /\ ~WireGuardTask => UNCHANGED wgVars
  BY DEF Next, WifiEvent, Period, ManualSetup, ScanStarts, ScanStops, ScanEnds, PageAsks,
         ServerStarts, ServerReadsMode, Associates, GetsIp, Loses
<1> QED
  BY <1>2, <1>3, <1>4, <1>5

\* The status shows "connected" only behind a tunnel, except from the disconnect to
\* the store of the new state when the tick stands down, and a tunnel goes with its
\* address and with the setup network (voice_wireguard.c:43-115).
THEOREM RecordsBehindTunnel == FairSpec => []ReadyMeansTunnel
<1>1. TunnelInv => ReadyMeansTunnel
  BY DEF TunnelInv, WgInv, ReadyMeansTunnel, Ready
<1> QED
  BY InitTunnel, StepTunnel, <1>1, PTL DEF FairSpec

-----------------------------------------------------------------------------
\* What the flag will say when the events in the queue are handled.
Announced == IF events = << >> THEN connected ELSE events[Len(events)] = "got_ip"

FlagInv ==
  /\ events \in Seq({"lost", "got_ip"})
  /\ connected \in BOOLEAN
  /\ "at" \in DOMAIN station
  /\ Announced <=> station.at = "online"

LEMMA InitFlag == Init => FlagInv
<1> SUFFICES ASSUME Init PROVE FlagInv
  OBVIOUS
<1>1. events = << >> /\ connected = FALSE
  BY DEF Init
<1>2. "at" \in DOMAIN station /\ station.at # "online"
  BY DEF Init, Off
<1>3. ~Announced
  BY <1>1, Zenon DEF Announced
<1>4. events \in Seq({"lost", "got_ip"})
  BY <1>1
<1> QED
  BY <1>1, <1>2, <1>3, <1>4, Zenon DEF FlagInv

\* Whatever the station was doing, it is reported as lost when it stops.
LEMMA LossIsReported ==
  ASSUME FlagInv, events' = Reported, connected' = connected,
         "at" \in DOMAIN station', station'.at # "online"
  PROVE  FlagInv'
<1>1. CASE station.at = "idle"
  BY <1>1 DEF Reported, FlagInv, Announced
<1>2. CASE station.at # "idle"
  BY <1>2 DEF Reported, FlagInv, Announced
<1> QED
  BY <1>1, <1>2

LEMMA StepFlag ==
  ASSUME FlagInv, [Next]_vars
  PROVE  FlagInv'
<1>1. ASSUME UNCHANGED << events, connected, station >> PROVE FlagInv'
  BY <1>1 DEF FlagInv, Announced
<1>2. CASE Manager
  <2>1. CASE ManagerConnects
    <3>1. events' = Reported /\ connected' = connected
      BY <2>1 DEF ManagerConnects
    <3>2. "at" \in DOMAIN station' /\ station'.at # "online"
      BY <2>1 DEF ManagerConnects, Off
    <3> QED
      BY <3>1, <3>2, LossIsReported
  <2> QED
    BY <1>1, <1>2, <2>1 DEF Manager, ManagerSetup, ManagerAnnounces, ManagerSelects
<1>3. CASE WifiEvent
  <2>1. /\ events # << >> /\ events' = Tail(events) /\ station' = station
        /\ connected' = (Head(events) = "got_ip")
    BY <1>3 DEF WifiEvent
  <2>2. Announced <=> events[Len(events)] = "got_ip"
    BY <2>1, Zenon DEF Announced
  <2>3. events' \in Seq({"lost", "got_ip"})
    BY <2>1 DEF FlagInv
  <2>4. Announced' <=> events[Len(events)] = "got_ip"
    <3>1. CASE events' = << >>
      <4>1. Head(events) = events[Len(events)]
        BY <2>1, <3>1 DEF FlagInv
      <4> QED
        BY <2>1, <3>1, <4>1, Zenon DEF Announced
    <3>2. CASE events' # << >>
      <4>1. events'[Len(events')] = events[Len(events)]
        BY <2>1, <3>2 DEF FlagInv
      <4> QED
        BY <3>2, <4>1, Zenon DEF Announced
    <3> QED
      BY <3>1, <3>2
  <2>5. connected' \in BOOLEAN
    BY <2>1, Zenon
  <2> QED
    BY <2>1, <2>2, <2>3, <2>4, <2>5, Zenon DEF FlagInv
<1>4. CASE Period \/ ManualSetup \/ ScanStops \/ ScanEnds \/ PageAsks
             \/ ServerStarts \/ ServerReadsMode \/ WireGuardTask
  BY <1>1, <1>4 DEF Period, ManualSetup, ScanStops, ScanEnds, PageAsks,
                    ServerStarts, ServerReadsMode, WireGuardTask
<1>5. CASE ScanStarts
  <2>1. CASE station.at = "connecting"
    <3>1. events' = Reported /\ connected' = connected
      BY <1>5, <2>1 DEF ScanStarts
    <3>2. "at" \in DOMAIN station' /\ station'.at # "online"
      BY <1>5, <2>1 DEF ScanStarts, Off
    <3> QED
      BY <3>1, <3>2, LossIsReported
  <2> QED
    BY <1>1, <1>5, <2>1 DEF ScanStarts
<1>6. CASE Associates
  BY <1>6 DEF Associates, FlagInv, Announced
<1>7. CASE GetsIp
  <2>1. PICK ip \in Addresses : station' = [station EXCEPT !.at = "online", !.ip = ip]
    BY <1>7 DEF GetsIp
  <2>2. events' = Append(events, "got_ip") /\ connected' = connected
    BY <1>7 DEF GetsIp
  <2> QED
    BY <2>1, <2>2 DEF FlagInv, Announced
<1>8. CASE Loses
  <2>1. events' = Reported /\ connected' = connected /\ station' = Off
    BY <1>8 DEF Loses
  <2> QED
    BY <2>1, LossIsReported DEF Off
<1>9. CASE UNCHANGED vars
  BY <1>1, <1>9
<1> QED
  BY <1>2, <1>3, <1>4, <1>5, <1>6, <1>7, <1>8, <1>9 DEF Next

\* Once its events are handled, s_wifi_connected says whether the station has an
\* address, over attempts broken off by the manager and by a scan
\* (board_sticks3.c:72-87).
THEOREM FlagEndsUpTrue == FairSpec => []FlagIsTrue
<1>1. FlagInv => FlagIsTrue
  BY DEF FlagInv, FlagIsTrue, Announced
<1> QED
  BY InitFlag, StepFlag, <1>1, PTL DEF FairSpec
-----------------------------------------------------------------------------
\* The scan task is there while its flag says so, and has a result when it leaves.
\* The first scan is not lost between the mode and s_server: a page that is up with
\* the setup network has its scan, unless the manager is about to announce it.  A
\* network the manager has chosen was chosen without a scan, and the scan that was
\* begun since then still waits.
HasScan == scan.running \/ scan.ready

ScanInv ==
  /\ scan = [at |-> scan.at, running |-> scan.running, ready |-> scan.ready, age |-> scan.age]
  /\ scan.running \in BOOLEAN /\ scan.ready \in BOOLEAN
  /\ "at" \in DOMAIN manager
  /\ scan.running <=> scan.at # "none"
  /\ scan.at = "release" => scan.ready
  /\ server = "up" /\ mode = "apsta" => HasScan \/ manager.at = "announce"
  /\ manager.at = "connect" => scan.at = "none" \/ (scan.at = "delay" /\ scan.age = 0)

LEMMA InitScan == Init => ScanInv
  BY DEF Init, ScanInv, HasScan

\* Where there was a scan or its result, there is one afterwards.
LEMMA BegunScan ==
  ASSUME ScanInv, ~scan.running, scan' \in {Scanning, NoTask}
  PROVE  /\ scan' = [at |-> scan'.at, running |-> scan'.running, ready |-> scan'.ready, age |-> scan'.age]
         /\ scan'.running \in BOOLEAN /\ scan'.ready \in BOOLEAN
         /\ scan'.running <=> scan'.at # "none"
         /\ scan'.at = "release" => scan'.ready
         /\ scan'.at = "none" \/ (scan'.at = "delay" /\ scan'.age = 0)
         /\ HasScan'
<1>1. CASE scan' = [at |-> "delay", running |-> TRUE, ready |-> FALSE, age |-> 0]
  BY <1>1 DEF HasScan
<1>2. CASE scan' = [at |-> "none", running |-> FALSE, ready |-> TRUE, age |-> 0]
  BY <1>2 DEF HasScan
<1> QED
  BY <1>1, <1>2 DEF Scanning, NoTask

LEMMA AnnouncedScan ==
  ASSUME ScanInv, SetupApStarted
  PROVE  /\ scan' = scan \/ (~scan.running /\ scan' \in {Scanning, NoTask})
         /\ server # "none" => HasScan'
<1>1. CASE server = "none" \/ scan.running
  BY <1>1 DEF SetupApStarted, HasScan
<1>2. CASE ~(server = "none" \/ scan.running)
  <2>1. ~scan.running /\ scan' \in {Scanning, NoTask}
    BY <1>2 DEF SetupApStarted
  <2> QED
    BY <2>1, BegunScan
<1> QED
  BY <1>1, <1>2

LEMMA StepScan ==
  ASSUME ScanInv, [Next]_vars
  PROVE  ScanInv'
<1>0. /\ scan = [at |-> scan.at, running |-> scan.running, ready |-> scan.ready, age |-> scan.age]
      /\ scan.running \in BOOLEAN /\ scan.ready \in BOOLEAN
      /\ "at" \in DOMAIN manager
      /\ scan.running <=> scan.at # "none"
      /\ scan.at = "release" => scan.ready
      /\ server = "up" /\ mode = "apsta" => HasScan \/ manager.at = "announce"
      /\ manager.at = "connect" => scan.at = "none" \/ (scan.at = "delay" /\ scan.age = 0)
  BY DEF ScanInv
<1>1. ASSUME ~scan.running, scan' \in {Scanning, NoTask}, "at" \in DOMAIN manager'
      PROVE  ScanInv'
  BY <1>1, BegunScan DEF ScanInv
<1>2. ASSUME UNCHANGED << scan, manager, server, mode >> PROVE ScanInv'
  BY <1>2 DEF ScanInv, HasScan
<1>3. CASE ManagerSetup
  <2>1. manager.at = "setup" /\ scan' = scan /\ server' = server
    BY <1>3 DEF ManagerSetup
  <2>2. \/ /\ mode' \in {"sta", "apsta"}
           /\ manager' = [manager EXCEPT !.at = IF mode' = "apsta" THEN "announce" ELSE "select"]
        \/ mode' = mode /\ manager' = [manager EXCEPT !.at = "select"]
    BY <1>3 DEF ManagerSetup, SetMode
  <2> QED
    BY <1>0, <2>1, <2>2 DEF ScanInv, HasScan
<1>4. CASE ManagerAnnounces
  <2>1. /\ SetupApStarted /\ manager' = [manager EXCEPT !.at = "select"]
        /\ UNCHANGED << server, mode >>
    BY <1>4 DEF ManagerAnnounces
  <2>2. "at" \in DOMAIN manager' /\ manager'.at = "select"
    BY <1>0, <2>1
  <2>3. CASE scan' = scan
    BY <1>0, <2>1, <2>2, <2>3, AnnouncedScan DEF ScanInv, HasScan
  <2> QED
    BY <1>1, <2>1, <2>2, <2>3, AnnouncedScan
<1>5. CASE ManagerSelects
  <2>1. manager.at = "select" /\ UNCHANGED << scan, server, mode >>
    BY <1>5 DEF ManagerSelects
  <2>2. \/ manager' = [manager EXCEPT !.at = "asleep"]
        \/ ~scan.running /\ \E p : manager' = [at |-> "connect", profile |-> p]
    BY <1>5 DEF ManagerSelects, SelectorTick, Tries, Waits
  <2> QED
    BY <1>0, <2>1, <2>2 DEF ScanInv, HasScan
<1>6. CASE ManagerConnects
  <2>1. /\ manager.at = "connect" /\ UNCHANGED << scan, server, mode >>
        /\ manager' = [manager EXCEPT !.at = "asleep"]
    BY <1>6 DEF ManagerConnects
  <2> QED
    BY <1>0, <2>1 DEF ScanInv, HasScan
<1>7. CASE WifiEvent \/ ManualSetup \/ Associates \/ GetsIp \/ Loses \/ WireGuardTask
  BY <1>2, <1>7 DEF WifiEvent, ManualSetup, Associates, GetsIp, Loses, WireGuardTask
<1>8. CASE Period
  <2>1. /\ manager.at = "asleep" /\ manager' = [manager EXCEPT !.at = "setup"]
        /\ UNCHANGED << server, mode >>
        /\ scan' = [scan EXCEPT !.age = IF scan.running THEN Capped(@, ScanTime) ELSE 0]
    BY <1>8 DEF Period
  <2> DEFINE age == IF scan.running THEN Capped(scan.age, ScanTime) ELSE 0
  <2>3. scan' = [scan EXCEPT !.age = age]
    BY <2>1
  <2> HIDE DEF age
  <2>4. scan' = [at |-> scan.at, running |-> scan.running, ready |-> scan.ready, age |-> age]
    BY <1>0, <2>3
  <2> QED
    BY <1>0, <2>1, <2>4 DEF ScanInv, HasScan
<1>9. CASE ScanStarts
  <2>1. /\ scan.at = "delay" /\ scan.age >= 1 /\ UNCHANGED << manager, server, mode >>
        /\ \/ scan' = [scan EXCEPT !.at = "radio", !.age = 0]
           \/ scan' = [scan EXCEPT !.at = "publish"]
    BY <1>9 DEF ScanStarts, Delayed
  <2>2. CASE scan' = [scan EXCEPT !.at = "publish"]
    BY <1>0, <2>1, <2>2 DEF ScanInv, HasScan
  <2>3. CASE scan' = [scan EXCEPT !.at = "radio", !.age = 0]
    <3>1. scan' = [at |-> "radio", running |-> scan.running, ready |-> scan.ready, age |-> 0]
      BY <1>0, <2>3
    <3> QED
      BY <1>0, <2>1, <3>1 DEF ScanInv, HasScan
  <2> QED
    BY <2>1, <2>2, <2>3
<1>10. CASE ScanStops \/ ScanEnds
  BY <1>0, <1>10 DEF ScanStops, ScanEnds, ScanInv, HasScan
<1>11. CASE PageAsks
  <2>1. ~scan.running /\ scan' \in {Scanning, NoTask} /\ UNCHANGED << manager, server, mode >>
    BY <1>11 DEF PageAsks
  <2> QED
    BY <1>0, <1>1, <2>1
<1>12. CASE ServerStarts
  BY <1>0, <1>12 DEF ServerStarts, ScanInv, HasScan
<1>13. CASE ServerReadsMode
  <2>1. server = "starting" /\ server' = "up" /\ UNCHANGED << manager, mode >>
    BY <1>13 DEF ServerReadsMode
  <2>2. CASE mode = "apsta"
    <3>1. SetupApStarted
      BY <1>13, <2>2 DEF ServerReadsMode
    <3>2. CASE scan' = scan
      BY <1>0, <2>1, <3>1, <3>2, AnnouncedScan DEF ScanInv, HasScan
    <3> QED
      BY <1>0, <1>1, <2>1, <3>1, <3>2, AnnouncedScan
  <2>3. CASE mode # "apsta"
    <3>1. scan' = scan
      BY <1>13, <2>3 DEF ServerReadsMode
    <3> QED
      BY <1>0, <2>1, <2>3, <3>1 DEF ScanInv, HasScan
  <2> QED
    BY <2>2, <2>3
<1>14. CASE UNCHANGED vars
  BY <1>2, <1>14
<1> QED
  BY <1>3, <1>4, <1>5, <1>6, <1>7, <1>8, <1>9, <1>10, <1>11, <1>12, <1>13, <1>14 DEF Next, Manager

\* Whoever opens the setup network or starts the page first, the page has a list of
\* networks or one on its way (board_sticks3.c:105-109, voice_config_httpd.c:561,
\* 583, 593-595).
THEOREM FirstScanIsNotLost == FairSpec => []PortalHasScan
<1>1. ScanInv => PortalHasScan
  BY DEF ScanInv, HasScan, PortalHasScan
<1> QED
  BY InitScan, StepScan, <1>1, PTL DEF FairSpec

\* Although s_scan_running is read before the driver is called, no network is tried
\* while the radio scans: a scan that begins in between waits out its delay, which
\* is longer than the rest of the manager's period (board_sticks3.c:114-126).
THEOREM NoConnectOverAScan == FairSpec => ScanOwnsRadio
<1>1. ScanInv /\ [Next]_vars => [ManagerConnects => scan.at # "radio"]_vars
  BY DEF ScanInv, ManagerConnects
<1> QED
  BY InitScan, StepScan, <1>1, PTL DEF FairSpec, ScanOwnsRadio
-----------------------------------------------------------------------------
(* Types.  What a variable may hold, the records' fields that are written  *)
(* one by one, and room for the events that one period can still bring.    *)

SelectorTyped ==
  /\ profiles \subseteq 0 .. Count - 1
  /\ "current" \in DOMAIN selector
  /\ selector.current \in -1 .. Count - 1

SetupTyped ==
  /\ "ap_active" \in DOMAIN setup
  /\ setup.ap_active = (mode = "apsta")

ScanTyped == scan.at \in {"none", "delay", "radio", "publish", "release"}

VpnTyped ==
  /\ WgTypeOK
  /\ {"at", "ip"} \subseteq DOMAIN station
  /\ station.ip \in Nat
  /\ station.at = "online" <=> station.ip # 0

\* What the station can still report before the period ends, the next attempt of
\* the manager left out.
StillToCome ==
  CASE station.at = "idle" -> 0
    [] station.at = "online" -> 1
    [] OTHER -> 2

ToCome == StillToCome + (IF manager.at = "asleep" THEN 0 ELSE 2)

EventsTyped ==
  /\ "at" \in DOMAIN manager
  /\ manager.at \in {"asleep", "setup", "announce", "select", "connect"}
  /\ "at" \in DOMAIN station
  /\ station.at \in {"idle", "connecting", "associated", "online"}
  /\ Len(events) + ToCome <= 4

TypeInv == SelectorTyped /\ SetupTyped /\ ScanTyped /\ VpnTyped /\ EventsTyped

LEMMA InitTypes == Init => TypeInv
<1> SUFFICES ASSUME Init PROVE TypeInv
  OBVIOUS
<1>1. SelectorTyped
  BY NetworkAssumption DEF Init, SelectorTyped
<1>2. SetupTyped
  <2>1. /\ setup = [configured |-> profiles # {}, connected |-> FALSE,
                    ap_active |-> profiles = {}, age |-> 0]
        /\ mode = IF profiles = {} THEN "apsta" ELSE "sta"
    BY DEF Init
  <2>2. "ap_active" \in DOMAIN setup /\ setup.ap_active = (profiles = {})
    BY <2>1
  <2>3. (mode = "apsta") = (profiles = {})
    BY <2>1
  <2> QED
    BY <2>2, <2>3 DEF SetupTyped
<1>3. ScanTyped
  BY DEF Init, ScanTyped
<1>4. VpnTyped
  <2>1. station = [at |-> "idle", profile |-> 0, ip |-> 0] /\ WgInit
    BY DEF Init, Off
  <2>2. network = [online |-> FALSE, setup_ap |-> FALSE, ip |-> 0]
    BY <2>1 DEF WgInit
  <2>3. state \in States /\ worker \in {"reading", "tick", "dead"}
    BY <2>1 DEF WgInit, States
  <2>4. {enabled, connecting, clock_set} \subseteq BOOLEAN /\ {tunnel, previous_ip} \subseteq Nat
    <3>1. enabled \in BOOLEAN /\ connecting = FALSE /\ clock_set = FALSE
      BY <2>1, Zenon DEF WgInit
    <3>2. {enabled, connecting, clock_set} \subseteq BOOLEAN
      BY <3>1, Zenon
    <3>3. {tunnel, previous_ip} \subseteq Nat
      BY <2>1 DEF WgInit
    <3> QED
      BY <3>2, <3>3
  <2> QED
    BY <2>1, <2>2, <2>3, <2>4 DEF VpnTyped, WgTypeOK
<1>5. EventsTyped
  BY DEF Init, EventsTyped, ToCome, StillToCome, Off
<1> QED
  BY <1>1, <1>2, <1>3, <1>4, <1>5 DEF TypeInv

\* A set of numbers has a least one.
LEMMA LeastOf ==
  ASSUME NEW T \in SUBSET Nat, T # {}
  PROVE  \E n \in T : \A m \in T : n <= m
<1>1. PICK t \in T : TRUE
  OBVIOUS
<1> DEFINE X == 0 .. t
           Below(s) == 0 .. s
           All == {Below(s) : s \in T \cap X}
<1>2. All \subseteq FiniteSubsetsOf(X) /\ All # {}
  <2>1. \A s \in X : Below(s) \in SUBSET X /\ IsFiniteSet(Below(s))
    BY FS_Interval
  <2>2. t \in T \cap X
    BY <1>1
  <2> QED
    BY <2>1, <2>2 DEF FiniteSubsetsOf
<1>3. PICK A \in All : \A B \in All : ~(<<B, A>> \in StrictSubsetOrdering(X))
  <2>1. IsFiniteSet(X)
    BY FS_Interval
  <2>2. IsWellFoundedOn(StrictSubsetOrdering(X), FiniteSubsetsOf(X))
    BY <2>1, FS_StrictSubsetOrderingWellFounded
  <2> HIDE DEF All
  <2> QED
    BY <1>2, <2>2, WFMin
<1>4. PICK s \in T \cap X : A = Below(s)
  OBVIOUS
<1>5. ASSUME NEW m \in T, m < s PROVE FALSE
  <2>1. Below(m) \in All /\ Below(m) \subseteq Below(s) /\ s \in Below(s) /\ s \notin Below(m)
    BY <1>5
  <2>2. <<Below(m), Below(s)>> \in StrictSubsetOrdering(X)
    <3>1. Below(m) \in SUBSET X /\ Below(s) \in SUBSET X
      BY <1>5
    <3> HIDE DEF Below, X
    <3> QED
      BY <2>1, <3>1 DEF StrictSubsetOrdering
  <2> QED
    BY <1>3, <1>4, <2>1, <2>2
<1> QED
  BY <1>5

\* Going round the ring from any profile meets a saved one, if there is any.
LEMMA FollowingIsSaved ==
  ASSUME SelectorTyped, profiles # {}
  PROVE  Following \in profiles
<1> DEFINE cur == selector.current
           After(offset) == (cur + offset) % Count
           Hits == {offset \in 1 .. Count : After(offset) \in profiles}
<1>1. cur \in -1 .. Count - 1 /\ Count \in Nat /\ Count > 0
  BY NetworkAssumption DEF SelectorTyped
<1>2. PICK p \in profiles : p \in 0 .. Count - 1
  BY DEF SelectorTyped
<1> HIDE DEF cur
<1>3. Hits # {}
  <2>1. CASE p > cur
    <3>1. p - cur \in 1 .. Count /\ cur + (p - cur) = p
      BY <1>1, <1>2, <2>1
    <3>2. p % Count = p
      BY <1>1, <1>2
    <3> QED
      BY <3>1, <3>2
  <2>2. CASE ~(p > cur)
    <3>1. p - cur + Count \in 1 .. Count /\ cur + (p - cur + Count) = p + Count
      BY <1>1, <1>2, <2>2
    <3>2. (p + Count) % Count = p % Count /\ p % Count = p
      BY <1>1, <1>2
    <3> QED
      BY <3>1, <3>2
  <2> QED
    BY <2>1, <2>2
<1>4. PICK first \in Hits : \A h \in Hits : first <= h
  <2>1. Hits \in SUBSET Nat
    OBVIOUS
  <2> HIDE DEF Hits
  <2> QED
    BY <1>3, <2>1, LeastOf
<1>5. /\ first \in 1 .. Count /\ After(first) \in profiles
      /\ \A less \in 1 .. first - 1 : After(less) \notin profiles
  <2>1. ASSUME NEW less \in 1 .. first - 1, After(less) \in profiles PROVE FALSE
    <3>1. less \in 1 .. Count /\ ~(first <= less)
      BY <1>1, <1>4
    <3> QED
      BY <1>4, <2>1, <3>1
  <2> QED
    BY <1>4, <2>1
<1> QED
  BY <1>5 DEF Following, cur

LEMMA NextSelector ==
  ASSUME SelectorTyped, [Next]_vars
  PROVE  SelectorTyped'
<1>1. profiles' = profiles
  BY DEF Next, Manager, ManagerSetup, ManagerAnnounces, ManagerSelects, ManagerConnects,
         WifiEvent, Period, ManualSetup, ScanStarts, ScanStops, ScanEnds, PageAsks,
         ServerStarts, ServerReadsMode, Associates, GetsIp, Loses, WireGuardTask
<1>2. ASSUME "current" \in DOMAIN selector', selector'.current \in -1 .. Count - 1
      PROVE  SelectorTyped'
  BY <1>1, <1>2 DEF SelectorTyped
<1>3. CASE ManagerSelects
  <2>1. ASSUME NEW p \in 0 .. Count - 1, Tries(p) PROVE SelectorTyped'
    BY <1>2, <2>1 DEF Tries
  <2>2. CASE Waits
    BY <1>2, <2>2 DEF Waits, SelectorTyped
  <2>3. CASE selector' = [selector EXCEPT !.age = 0]
    BY <1>2, <2>3 DEF SelectorTyped
  <2>4. CASE Tries(selector.current)
    BY <1>2, <2>4 DEF Tries, SelectorTyped
  <2>5. CASE profiles # {} /\ Tries(Following)
    BY <2>1, <2>5, FollowingIsSaved DEF SelectorTyped
  <2> QED
    BY <1>3, <2>2, <2>3, <2>4, <2>5 DEF ManagerSelects, SelectorTick
<1>4. CASE Period
  <2> DEFINE age == IF selector.connected THEN 0 ELSE Capped(selector.age, AttemptTime)
  <2>1. selector' = [selector EXCEPT !.age = age]
    BY <1>4 DEF Period
  <2> HIDE DEF age
  <2> QED
    BY <1>2, <2>1 DEF SelectorTyped
<1>5. CASE UNCHANGED selector
  BY <1>2, <1>5 DEF SelectorTyped
<1> QED
  BY <1>3, <1>4, <1>5
     DEF Next, Manager, ManagerSetup, ManagerAnnounces, ManagerConnects,
         WifiEvent, ManualSetup, ScanStarts, ScanStops, ScanEnds, PageAsks,
         ServerStarts, ServerReadsMode, Associates, GetsIp, Loses, WireGuardTask

\* The manager writes down the mode it has set, and no other.
LEMMA NextSetup ==
  ASSUME SetupTyped, [Next]_vars
  PROVE  SetupTyped'
<1>1. CASE UNCHANGED << setup, mode >>
  BY <1>1 DEF SetupTyped
<1>2. CASE ManagerSetup
  <2>1. "ap_active" \in DOMAIN Observed /\ Observed.ap_active = setup.ap_active
    BY DEF Observed, SetupTyped
  <2>2. ASSUME NEW new, NEW next, SetMode(new, next) PROVE SetupTyped'
    <3>1. CASE mode' = new /\ setup' = [Observed EXCEPT !.ap_active = (new = "apsta")]
      BY <2>1, <3>1 DEF SetupTyped
    <3>2. CASE mode' = mode /\ setup' = Observed
      BY <2>1, <3>2 DEF SetupTyped
    <3> QED
      BY <2>2, <3>1, <3>2 DEF SetMode
  <2>3. CASE mode' = mode /\ setup' = Observed
    BY <2>1, <2>3 DEF SetupTyped
  <2> QED
    BY <1>2, <2>2, <2>3 DEF ManagerSetup
<1>3. CASE Period
  <2> DEFINE age == IF setup.connected THEN 0 ELSE Capped(setup.age, ApDelay)
  <2>1. setup' = [setup EXCEPT !.age = age] /\ mode' = mode
    BY <1>3 DEF Period
  <2> HIDE DEF age
  <2> QED
    BY <2>1 DEF SetupTyped
<1> QED
  BY <1>1, <1>2, <1>3
     DEF Next, Manager, ManagerAnnounces, ManagerSelects, ManagerConnects,
         WifiEvent, ManualSetup, ScanStarts, ScanStops, ScanEnds, PageAsks,
         ServerStarts, ServerReadsMode, Associates, GetsIp, Loses, WireGuardTask

LEMMA NextScan ==
  ASSUME ScanInv, ScanTyped, [Next]_vars
  PROVE  ScanTyped'
<1>1. CASE scan' = scan
  BY <1>1 DEF ScanTyped
<1>2. CASE scan' \in {Scanning, NoTask}
  BY <1>2 DEF Scanning, NoTask, ScanTyped
<1>3. CASE ScanStarts \/ ScanStops \/ ScanEnds
  BY <1>3 DEF ScanStarts, ScanStops, ScanEnds, ScanInv, ScanTyped
<1>4. CASE Period
  <2> DEFINE age == IF scan.running THEN Capped(scan.age, ScanTime) ELSE 0
  <2>1. scan' = [scan EXCEPT !.age = age]
    BY <1>4 DEF Period
  <2> HIDE DEF age
  <2>2. scan'.at = scan.at
    BY <2>1 DEF ScanInv
  <2> QED
    BY <2>2 DEF ScanTyped
<1> QED
  BY <1>1, <1>2, <1>3, <1>4
     DEF Next, Manager, ManagerSetup, ManagerAnnounces, ManagerSelects, ManagerConnects,
         SetupApStarted, WifiEvent, ManualSetup, PageAsks, ServerStarts, ServerReadsMode,
         Associates, GetsIp, Loses, WireGuardTask

\* A step of the tick leaves a state it knows, and no address but one that it had or
\* was given.
LEMMA TickKeepsTypes ==
  ASSUME WgTypeOK, WgTick \/ OpenFails \/ TickLost
  PROVE  WgTypeOK'
<1> DEFINE Places == {"reading", "tick", "pausing", "dropping", "checked", "opening",
                      "undoing", "asking", "dead"}
<1>1. /\ state \in States /\ network.ip \in Nat /\ tunnel \in Nat /\ previous_ip \in Nat
      /\ enabled \in BOOLEAN /\ connecting \in BOOLEAN /\ clock_set \in BOOLEAN
  BY DEF WgTypeOK
<1>2. ASSUME NEW next \in Places, NEW new \in States, Step(next, new),
             Keeps \/ (\E ip \in Nat : TakenDown(ip))
                   \/ (tunnel' \in Nat /\ connecting' \in BOOLEAN /\ previous_ip' \in Nat)
      PROVE  WgTypeOK'
  <2>1. tunnel' \in Nat /\ previous_ip' \in Nat
    BY <1>1, <1>2 DEF Keeps, TakenDown
  <2>2. connecting' \in BOOLEAN
    BY <1>1, <1>2, Zenon DEF Keeps, TakenDown
  <2>3. /\ state' \in States /\ worker' \in Places
        /\ UNCHANGED << enabled, clock_set, network >>
    BY <1>2 DEF Step
  <2> QED
    BY <1>1, <2>1, <2>2, <2>3 DEF WgTypeOK
<1>3. {"waiting_wifi", "waiting_time", "connecting", "connected", "error",
       "subnet_conflict"} \subseteq States /\ Paused \in States
  BY DEF States, Paused
<1>4. CASE Disconnect
  <2>1. Step("pausing", state)
    BY <1>4 DEF Disconnect
  <2>2. tunnel' \in Nat /\ previous_ip' \in Nat
    BY <1>1, <1>4 DEF Disconnect, TakenDown
  <2>3. connecting' \in BOOLEAN
    BY <1>4, Zenon DEF Disconnect, TakenDown
  <2> QED
    BY <1>1, <1>2, <2>1, <2>2, <2>3
<1>5. CASE StandDown
  BY <1>2, <1>3, <1>5 DEF StandDown
<1>6. CASE LeaveAddress
  BY <1>2, <1>3, <1>6 DEF LeaveAddress
<1>7. CASE DropTunnel
  BY <1>1, <1>2, <1>7 DEF DropTunnel
<1>8. CASE WaitForTime
  BY <1>2, <1>3, <1>8 DEF WaitForTime
<1>9. CASE BeginOpen
  BY <1>2, <1>3, <1>9 DEF BeginOpen
<1>10. CASE Open
  BY <1>1, <1>2, <1>10 DEF Open
<1>11. CASE OpenFails
  BY <1>2, <1>3, <1>11 DEF OpenFails
<1>12. CASE Undo
  BY <1>1, <1>2, <1>12 DEF Undo
<1>13. CASE AskPeer
  BY <1>2, <1>3, <1>13 DEF AskPeer
<1>14. CASE TickLost
  BY <1>2, <1>3, <1>14 DEF TickLost
<1> QED
  BY <1>4, <1>5, <1>6, <1>7, <1>8, <1>9, <1>10, <1>11, <1>12, <1>13, <1>14 DEF WgTick

LEMMA NextVpn ==
  ASSUME VpnTyped, [Next]_vars
  PROVE  VpnTyped'
<1>1. ASSUME UNCHANGED wgVars, {"at", "ip"} \subseteq DOMAIN station', station'.ip \in Nat,
             station'.at = "online" <=> station'.ip # 0
      PROVE  VpnTyped'
  BY <1>1 DEF VpnTyped, WgTypeOK
<1>2. CASE UNCHANGED << wgVars, station >>
  BY <1>1, <1>2 DEF VpnTyped
<1>3. CASE ManagerConnects
  BY <1>1, <1>3 DEF ManagerConnects, Off
<1>4. CASE ScanStarts
  BY <1>1, <1>2, <1>4 DEF ScanStarts, Off
<1>5. CASE Associates
  <2>1. station' = [station EXCEPT !.at = "associated"] /\ station.at = "connecting" /\ UNCHANGED wgVars
    BY <1>5 DEF Associates
  <2> QED
    BY <1>1, <2>1 DEF VpnTyped
<1>6. CASE GetsIp
  <2>1. PICK ip \in Addresses : station' = [station EXCEPT !.at = "online", !.ip = ip]
    BY <1>6 DEF GetsIp
  <2>2. UNCHANGED wgVars /\ ip \in Nat /\ ip # 0
    BY <1>6, NetworkAssumption DEF GetsIp
  <2> QED
    BY <1>1, <2>1, <2>2 DEF VpnTyped
<1>7. CASE Loses
  BY <1>1, <1>7 DEF Loses, Off
<1>8. CASE WireGuardTask
  <2>1. station' = station
    BY <1>8 DEF WireGuardTask
  <2>2. ASSUME WgTypeOK' PROVE VpnTyped'
    BY <2>1, <2>2 DEF VpnTyped
  <2>3. CASE WgTick \/ OpenFails \/ TickLost
    BY <2>2, <2>3, TickKeepsTypes DEF VpnTyped
  <2>4. CASE ClockSet
    BY <2>2, <2>4 DEF ClockSet, VpnTyped, WgTypeOK
  <2>5. CASE Look(station.at = "online", mode = "apsta", station.ip)
    BY <2>2, <2>5 DEF Look, VpnTyped, WgTypeOK
  <2> QED
    BY <1>8, <2>3, <2>4, <2>5 DEF WireGuardTask
<1> QED
  BY <1>2, <1>3, <1>4, <1>5, <1>6, <1>7, <1>8
     DEF Next, Manager, ManagerSetup, ManagerAnnounces, ManagerSelects,
         WifiEvent, Period, ManualSetup, ScanStops, ScanEnds, PageAsks,
         ServerStarts, ServerReadsMode

\* Each report of the station takes one of those it had still to make; the manager's
\* attempt is the only source of new ones, and a period begins with an empty queue.
LEMMA NextEvents ==
  ASSUME EventsTyped, FlagInv, [Next]_vars
  PROVE  EventsTyped'
<1>0. /\ "at" \in DOMAIN manager
      /\ manager.at \in {"asleep", "setup", "announce", "select", "connect"}
      /\ "at" \in DOMAIN station
      /\ station.at \in {"idle", "connecting", "associated", "online"}
      /\ Len(events) \in Nat /\ Len(events) + ToCome <= 4
      /\ events \in Seq({"lost", "got_ip"})
  BY DEF EventsTyped, FlagInv
<1>1. /\ StillToCome \in 0 .. 2 /\ (station.at = "idle" <=> StillToCome = 0)
      /\ (station.at = "online" <=> StillToCome = 1)
  BY <1>0 DEF StillToCome
<1>2. Reported \in Seq({"lost", "got_ip"}) /\ Len(Reported) <= Len(events) + StillToCome
      /\ (station.at # "idle" => Len(Reported) = Len(events) + 1)
      /\ (station.at = "idle" => Len(Reported) = Len(events))
  BY <1>0, <1>1 DEF Reported
<1>3. ASSUME UNCHANGED << events, station >>, "at" \in DOMAIN manager', manager.at # "asleep",
             manager'.at \in {"asleep", "setup", "announce", "select", "connect"}
      PROVE  EventsTyped'
  BY <1>0, <1>1, <1>3 DEF EventsTyped, ToCome, StillToCome
<1>4. ASSUME manager' = manager, events' = Reported, station' = Off PROVE EventsTyped'
  <2>1. "at" \in DOMAIN station' /\ station'.at = "idle"
    BY <1>4 DEF Off
  <2>2. StillToCome' = 0
    BY <2>1 DEF StillToCome
  <2> QED
    BY <1>0, <1>1, <1>2, <1>4, <2>1, <2>2 DEF EventsTyped, ToCome
<1>5. CASE UNCHANGED << events, station, manager >>
  BY <1>5 DEF EventsTyped, ToCome, StillToCome
<1>6. CASE ManagerSetup \/ ManagerAnnounces
  <2>1. /\ UNCHANGED << events, station >> /\ manager.at # "asleep"
        /\ \E next \in {"announce", "select"} : manager' = [manager EXCEPT !.at = next]
    BY <1>6 DEF ManagerSetup, ManagerAnnounces, SetMode
  <2> QED
    BY <1>0, <1>3, <2>1
<1>7. CASE ManagerSelects
  <2>1. /\ UNCHANGED << events, station >> /\ manager.at # "asleep"
        /\ \/ manager' = [manager EXCEPT !.at = "asleep"]
           \/ \E p : manager' = [at |-> "connect", profile |-> p]
    BY <1>7 DEF ManagerSelects, SelectorTick, Tries, Waits
  <2> QED
    BY <1>0, <1>3, <2>1
<1>8. CASE ManagerConnects
  <2>1. manager.at = "connect" /\ events' = Reported /\ manager' = [manager EXCEPT !.at = "asleep"]
    BY <1>8 DEF ManagerConnects
  <2>2. "at" \in DOMAIN station' /\ station'.at \in {"idle", "connecting"}
    BY <1>8 DEF ManagerConnects, Off
  <2>3. StillToCome' \in 0 .. 2
    BY <2>2 DEF StillToCome
  <2>4. ToCome = StillToCome + 2 /\ ToCome' = StillToCome' /\ "at" \in DOMAIN manager'
        /\ manager'.at = "asleep"
    BY <1>0, <2>1, <2>3 DEF ToCome
  <2> QED
    BY <1>0, <1>1, <1>2, <2>1, <2>2, <2>3, <2>4 DEF EventsTyped
<1>9. CASE WifiEvent
  <2>1. events # << >> /\ events' = Tail(events) /\ UNCHANGED << station, manager >>
    BY <1>9 DEF WifiEvent
  <2>2. ToCome' = ToCome /\ ToCome \in Nat
    BY <1>0, <1>1, <2>1 DEF ToCome, StillToCome
  <2>3. Len(events') = Len(events) - 1
    BY <1>0, <2>1
  <2>4. Len(events') + ToCome' <= 4
    <3>1. ToCome \in Nat /\ Len(events) \in Nat /\ Len(events) + ToCome <= 4
      BY <1>0, <2>2
    <3> HIDE DEF ToCome
    <3> QED
      BY <2>2, <2>3, <3>1
  <2> QED
    BY <1>0, <2>1, <2>4 DEF EventsTyped
<1>10. CASE Period
  <2>1. events = << >> /\ UNCHANGED << events, station >> /\ manager' = [manager EXCEPT !.at = "setup"]
    BY <1>10 DEF Period
  <2>2. StillToCome' = StillToCome
    BY <2>1 DEF StillToCome
  <2>3. "at" \in DOMAIN manager' /\ manager'.at = "setup"
    BY <1>0, <2>1
  <2>4. ToCome' = StillToCome + 2
    BY <2>2, <2>3 DEF ToCome
  <2> QED
    BY <1>0, <1>1, <2>1, <2>3, <2>4 DEF EventsTyped
<1>11. CASE ScanStarts
  <2>1. \/ events' = Reported /\ station' = Off /\ manager' = manager
        \/ UNCHANGED << events, station, manager >>
    BY <1>11 DEF ScanStarts
  <2> QED
    BY <1>4, <1>5, <2>1
<1>12. CASE Loses
  BY <1>4, <1>12 DEF Loses
<1>13. CASE Associates
  <2>1. station.at = "connecting" /\ station' = [station EXCEPT !.at = "associated"]
        /\ UNCHANGED << events, manager >>
    BY <1>13 DEF Associates
  <2>2. "at" \in DOMAIN station' /\ station'.at = "associated"
    BY <1>0, <2>1
  <2>3. ToCome' = ToCome
    BY <2>1, <2>2 DEF ToCome, StillToCome
  <2> QED
    BY <1>0, <2>1, <2>2, <2>3 DEF EventsTyped
<1>14. CASE GetsIp
  <2>1. PICK ip \in Addresses : station' = [station EXCEPT !.at = "online", !.ip = ip]
    BY <1>14 DEF GetsIp
  <2>2. station.at = "associated" /\ events' = Append(events, "got_ip") /\ manager' = manager
    BY <1>14 DEF GetsIp
  <2>3. "at" \in DOMAIN station' /\ station'.at = "online"
    BY <1>0, <2>1
  <2>4. StillToCome = 2 /\ StillToCome' = 1
    BY <2>2, <2>3 DEF StillToCome
  <2>5. Len(events') = Len(events) + 1
    BY <1>0, <2>2
  <2> QED
    BY <1>0, <2>2, <2>3, <2>4, <2>5 DEF EventsTyped, ToCome
<1> QED
  BY <1>5, <1>6, <1>7, <1>8, <1>9, <1>10, <1>11, <1>12, <1>13, <1>14
     DEF Next, Manager, ManualSetup, ScanStops, ScanEnds, PageAsks,
         ServerStarts, ServerReadsMode, WireGuardTask

\* The manager's record of the mode is the mode, its profile is one of the table, a
\* scan is running exactly while its task is there, and at most four events wait
\* for the event loop (board_sticks3.c:72-180, voice_wifi_profiles.c).
THEOREM NetworkTypeCorrect == FairSpec => []NetworkTypeOK
<1>1. ScanInv /\ TypeInv => NetworkTypeOK
  <2> SUFFICES ASSUME ScanInv, TypeInv PROVE NetworkTypeOK
    OBVIOUS
  <2>1. Len(events) <= 4
    BY DEF TypeInv, EventsTyped, ToCome, StillToCome
  <2> QED
    BY <2>1 DEF NetworkTypeOK, TypeInv, SelectorTyped, SetupTyped, ScanTyped, VpnTyped,
                EventsTyped, ScanInv
<1>2. ScanInv /\ FlagInv /\ TypeInv /\ [Next]_vars => TypeInv'
  BY NextSelector, NextSetup, NextScan, NextVpn, NextEvents DEF TypeInv
<1> QED
  BY InitTypes, InitScan, StepScan, InitFlag, StepFlag, <1>1, <1>2, PTL DEF FairSpec
=============================================================================
