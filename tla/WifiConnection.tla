---------------------------- MODULE WifiConnection ----------------------------
(***************************************************************************)
(* The task that keeps the Wi-Fi station connected.  The driver and lwIP   *)
(* tell it what happens with event bits, which it takes all at once and    *)
(* handles in a fixed order; the order in which they came is lost.  It     *)
(* spends most of its time in calls of the driver, while more bits come.   *)
(*                                                                         *)
(* Sources: net_main and APP_wifi_cb of                                    *)
(* Appli/Common/net/W6X_ARCH_T02/st67w6x_netconn.c, and                    *)
(* netif_link_sta_down_cb and netif_status_callback of lwip.c beside it.   *)
(*                                                                         *)
(* Start-up of the driver succeeds.  The DHCP server always gives the same *)
(* address.  net_request_reconnect has no caller and is left out, and with *)
(* it the status that only it makes a difference to.                       *)
(***************************************************************************)
EXTENDS Naturals

VARIABLES
    netAt,          \* where net_main is in its loop
    taken,          \* eventBits
    appEvents,      \* app_evt_current
    systemEvents,   \* xSystemEvents: NET_CONNECTED and NET_DISCONNECTED
    station,        \* "down", "joining", "up" or "addressed"
    reporting,      \* netif_status_callback has found an address it does not know
    lastAddress,    \* last_ipv4_addr is set
    xLastAddress,   \* xLastAddr is set
    refused,        \* (history) the driver has refused a W6X_WiFi_Connect
    dropped         \* (history) bits that were taken and not handled

addressVars == <<reporting, lastAddress, xLastAddress>>
wifiVars == <<netAt, taken, appEvents, systemEvents, station, addressVars, refused, dropped>>

AppEvents == {"connected", "disconnected", "gotIp"}

-----------------------------------------------------------------------------

\* The loop is entered with the first connection still to be made
WifiInit ==
    /\ netAt = "wait" /\ taken = {} /\ appEvents = {"disconnected"}
    /\ systemEvents = {} /\ station = "down"
    /\ reporting = FALSE /\ lastAddress = FALSE /\ xLastAddress = FALSE
    /\ refused = FALSE /\ dropped = {}

-----------------------------------------------------------------------------
(* The driver and lwIP. *)

\* W6X_WIFI_EVT_CONNECTED_ID
Joins ==
    /\ station = "joining"
    /\ station' = "up" /\ appEvents' = appEvents \cup {"connected"}
    /\ UNCHANGED <<netAt, taken, systemEvents, addressVars, refused, dropped>>

\* W6X_WIFI_EVT_REASON_ID
DoesNotJoin ==
    /\ station = "joining"
    /\ station' = "down" /\ appEvents' = appEvents \cup {"disconnected"}
    /\ UNCHANGED <<netAt, taken, systemEvents, addressVars, refused, dropped>>

\* W6X_WIFI_EVT_DISCONNECTED_ID and netif_link_sta_down_cb
LosesAccessPoint ==
    /\ station \in {"up", "addressed"}
    /\ station' = "down" /\ appEvents' = appEvents \cup {"disconnected"}
    /\ lastAddress' = FALSE
    /\ UNCHANGED <<netAt, taken, systemEvents, reporting, xLastAddress, refused, dropped>>

\* DHCP binds, and netif_status_callback compares the address with the two it remembers
Binds ==
    /\ station = "up" /\ ~reporting
    /\ station' = "addressed"
    /\ reporting' = (~lastAddress \/ ~xLastAddress)
    /\ UNCHANGED <<netAt, taken, appEvents, systemEvents, lastAddress, xLastAddress, refused, dropped>>

\* The callback goes on in the task of lwIP, whatever the driver's task has done since
ReportsAddress ==
    /\ reporting
    /\ reporting' = FALSE /\ lastAddress' = TRUE /\ xLastAddress' = TRUE
    /\ appEvents' = appEvents \cup {"gotIp"}
    /\ UNCHANGED <<netAt, taken, systemEvents, station, refused, dropped>>

-----------------------------------------------------------------------------
(* net_main. *)

\* xEventGroupWaitBits.  When it times out the loop only asks the driver for its state.
TakesEvents ==
    /\ netAt = "wait" /\ appEvents # {}
    /\ taken' = appEvents /\ appEvents' = {}
    /\ netAt' = "connected"
    /\ UNCHANGED <<systemEvents, station, addressVars, refused, dropped>>

HandlesConnected ==
    /\ netAt = "connected"
    /\ taken' = taken \ {"connected"}
    /\ netAt' = "disconnected"
    /\ UNCHANGED <<appEvents, systemEvents, station, addressVars, refused, dropped>>

\* The power mode cannot be restored, or the state of the station cannot be read: continue
AbandonsTurn ==
    /\ netAt = "connected" /\ "connected" \in taken
    /\ dropped' = dropped \cup (taken \ {"connected"})
    /\ taken' = {}
    /\ netAt' = "wait"
    /\ UNCHANGED <<appEvents, systemEvents, station, addressVars, refused>>

\* W6X_WiFi_Connect begins.  On a station that is connected it makes no difference.
HandlesDisconnected ==
    /\ netAt = "disconnected" /\ "disconnected" \in taken
    /\ systemEvents' = systemEvents \cup {"NET_DISCONNECTED"}
    /\ station' = IF station = "down" THEN "joining" ELSE station
    /\ taken' = taken \ {"disconnected"}
    /\ netAt' = "connecting"
    /\ UNCHANGED <<appEvents, addressVars, refused, dropped>>

\* The driver refuses without an event; the result is not looked at
IsRefused ==
    /\ netAt = "disconnected" /\ "disconnected" \in taken
    /\ systemEvents' = systemEvents \cup {"NET_DISCONNECTED"}
    /\ taken' = taken \ {"disconnected"}
    /\ refused' = TRUE
    /\ netAt' = "connecting"
    /\ UNCHANGED <<appEvents, station, addressVars, dropped>>

\* (mutant) a turn handles a disconnection or an address, not both
ConnectReturnsToWait ==
    /\ \/ netAt = "connecting" /\ taken' = {} /\ netAt' = "wait"
       \/ netAt = "disconnected" /\ "disconnected" \notin taken /\ netAt' = "gotIp" /\ UNCHANGED taken
    /\ UNCHANGED <<appEvents, systemEvents, station, addressVars, refused, dropped>>

\* W6X_WiFi_Connect returns, whether or not the station has joined
ConnectReturns ==
    /\ \/ netAt = "connecting"
       \/ netAt = "disconnected" /\ "disconnected" \notin taken
    /\ netAt' = "gotIp"
    /\ UNCHANGED <<taken, appEvents, systemEvents, station, addressVars, refused, dropped>>

\* (mutant) bits are also cleared when the turn is over
HandlesGotIpAndClears ==
    /\ netAt = "gotIp"
    /\ systemEvents' = IF "gotIp" \in taken
                       THEN systemEvents \cup {"NET_CONNECTED"} ELSE systemEvents
    /\ taken' = {} /\ appEvents' = {}
    /\ netAt' = "wait"
    /\ UNCHANGED <<station, addressVars, refused, dropped>>

HandlesGotIp ==
    /\ netAt = "gotIp"
    /\ systemEvents' = IF "gotIp" \in taken
                       THEN systemEvents \cup {"NET_CONNECTED"} ELSE systemEvents
    /\ taken' = {}
    /\ netAt' = "wait"
    /\ UNCHANGED <<appEvents, station, addressVars, refused, dropped>>

-----------------------------------------------------------------------------

Driver == Joins \/ DoesNotJoin \/ LosesAccessPoint \/ Binds

NetMain ==
    \/ TakesEvents \/ HandlesConnected \/ AbandonsTurn \/ HandlesDisconnected \/ IsRefused
    \/ ConnectReturns \/ HandlesGotIp

WifiNext == Driver \/ ReportsAddress \/ NetMain

\* The task of lwIP and net_main run, and calls of the driver return
WifiFairness == WF_wifiVars(NetMain) /\ WF_wifiVars(ReportsAddress)

WifiSpec == WifiInit /\ [][WifiNext]_wifiVars

-----------------------------------------------------------------------------
(* Properties. *)

WifiTypeOK ==
    /\ netAt \in {"wait", "connected", "disconnected", "connecting", "gotIp"}
    /\ taken \subseteq AppEvents
    /\ appEvents \subseteq AppEvents
    /\ systemEvents \subseteq {"NET_CONNECTED", "NET_DISCONNECTED"}
    /\ station \in {"down", "joining", "up", "addressed"}
    /\ {reporting, lastAddress, xLastAddress, refused} \subseteq BOOLEAN
    /\ dropped \subseteq AppEvents

\* However the bits fall together, a station that is down is going to be connected again,
\* but for two ways the code gives that up: the driver refused, or the bit was dropped with
\* a turn.  ("If disconnected unexpectedly, schedule automatic retry".)
DownIsRetried ==
    station = "down" => "disconnected" \in appEvents \cup taken \cup dropped \/ refused

\* Whoever waits for the network before its first connection is released in the end when
\* the station has an address, unless the bit that says so was dropped with a turn.
WaitersReleased ==
    WifiFairness =>
        (station = "addressed" ~> ("NET_CONNECTED" \in systemEvents \/ "gotIp" \in dropped))

=============================================================================
