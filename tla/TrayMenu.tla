------------------------------ MODULE TrayMenu ------------------------------
(* The tray module (modules/tray.rs): clicks on icons, the menu that is     *)
(* asked for over the bus and comes back some time later, and its popup.    *)
(* The bar opens the popup, or closes it if it is the one that is open.     *)
EXTENDS Integers, FiniteSets, Sequences

CONSTANTS
  Items,       \* icons
  WithMenu,    \* those that export a menu
  MenuOnly,    \* those a left click opens the menu of
  MaxRequests, \* bound: menu requests
  NOITEM

ASSUME MenuAssumption == NOITEM \notin Items

VARIABLES
  tray,        \* Tray.items: those of the last snapshot
  snapshots,   \* those on their way
  request, pending,
  replies,     \* menus asked for and not yet here: <<request, item>>
  menuItem,    \* Tray.menu_item
  popup,       \* is the module's popup open?
  sent         \* history: what the last message did, <<kind, item>>

menuVars == <<tray, snapshots, request, pending, replies, menuItem, popup, sent>>

MenuInit ==
  /\ tray = {} /\ snapshots = <<>> /\ request = 0 /\ pending = FALSE /\ replies = {}
  /\ menuItem = NOITEM /\ popup = FALSE /\ sent = <<"none", NOITEM>>

(* The service publishes; applications come and go. *)
Publish(items) ==
  /\ Len(snapshots) < 2 /\ snapshots' = Append(snapshots, items)
  /\ UNCHANGED <<tray, request, pending, replies, menuItem, popup, sent>>

(* Msg::State: the popup of an item that is gone is closed. *)
State ==
  /\ snapshots # <<>> /\ snapshots' = Tail(snapshots) /\ tray' = Head(snapshots)
  /\ IF menuItem # NOITEM /\ menuItem \notin tray'
     THEN menuItem' = NOITEM /\ popup' = FALSE
     ELSE UNCHANGED <<menuItem, popup>>
  /\ sent' = <<"none", NOITEM>>
  /\ UNCHANGED <<request, pending, replies>>

WantsMenu(i, action) ==
  i \in WithMenu /\ (action = "context" \/ (action = "activate" /\ i \in MenuOnly))

(* Msg::Action that asks for a menu: one at a time. *)
AskMenu(i, action) ==
  /\ i \in tray /\ WantsMenu(i, action) /\ request < MaxRequests
  /\ IF pending THEN UNCHANGED <<request, pending, replies>>
     ELSE /\ request' = request + 1 /\ pending' = TRUE
          /\ replies' = replies \cup {<<request + 1, i>>}
  /\ sent' = <<"none", NOITEM>>
  /\ UNCHANGED <<tray, snapshots, menuItem, popup>>

(* Any other Msg::Action goes to the application, and a menu that is still  *)
(* on its way is not wanted any more.                                       *)
Act(i, action) ==
  /\ i \in tray /\ ~WantsMenu(i, action) /\ request < MaxRequests
  /\ pending' = FALSE /\ request' = request + 1
  /\ sent' = <<action, i>>
  /\ UNCHANGED <<tray, snapshots, replies, menuItem, popup>>

(* Msg::Menu: the menu of the request that is still wanted is shown; one    *)
(* without entries, or that did not come in three seconds, is left to the   *)
(* application.  Faulty variant: any reply will do.                         *)
Wanted_Any(r) == TRUE
Wanted(r) == r[1] = request /\ pending

Menu(r, nodes) ==
  /\ r \in replies /\ replies' = replies \ {r}
  /\ IF ~Wanted(r) THEN sent' = <<"none", NOITEM>> /\ UNCHANGED <<pending, menuItem, popup>>
     ELSE /\ pending' = FALSE
          /\ IF r[2] \in tray /\ nodes
             THEN menuItem' = r[2] /\ popup' = ~popup /\ sent' = <<"menu", r[2]>>
             ELSE /\ sent' = IF r[2] \in tray THEN <<"context", r[2]>> ELSE <<"none", NOITEM>>
                  /\ UNCHANGED <<menuItem, popup>>
  /\ UNCHANGED <<tray, snapshots, request>>

(* Msg::Choose, from the popup. *)
Choose ==
  /\ popup /\ popup' = FALSE
  /\ sent' = IF menuItem = NOITEM THEN <<"none", NOITEM>> ELSE <<"click", menuItem>>
  /\ UNCHANGED <<tray, snapshots, request, pending, replies, menuItem>>

(* The compositor, or another popup of the bar, closes it. *)
Dismiss ==
  /\ popup /\ popup' = FALSE /\ sent' = <<"none", NOITEM>>
  /\ UNCHANGED <<tray, snapshots, request, pending, replies, menuItem>>

MenuNext ==
  \/ \E items \in SUBSET Items : Publish(items)
  \/ State \/ Choose \/ Dismiss
  \/ \E i \in Items, a \in {"activate", "secondary", "context", "scroll"} :
       AskMenu(i, a) \/ Act(i, a)
  \/ \E r \in replies, nodes \in BOOLEAN : Menu(r, nodes)

MenuSpec == MenuInit /\ [][MenuNext]_menuVars

-----------------------------------------------------------------------------
(* An open menu is that of an icon that is there, so that a choice always   *)
(* reaches an application; and no menu appears, and none is handed on to    *)
(* an application, after the user has done something else with the tray:    *)
(* only the answer to the last thing asked is acted upon.                   *)
MenuCurrent ==
  /\ [](popup => menuItem \in tray)
  /\ [][(popup' /\ ~popup) \/ (sent'[1] = "context" /\ request' = request /\ sent' # sent) =>
          \E r \in replies \ replies' : r[1] = request /\ r[2] = sent'[2]]_menuVars

(* "Right-click opens com.canonical.dbusmenu when exported"                 *)
(* (docs/tray.md:24): the menu of another icon than the one whose menu is   *)
(* open comes on screen.                                                    *)
MenuOpens == [][sent'[1] = "menu" /\ menuItem' # menuItem => popup']_menuVars
=============================================================================
