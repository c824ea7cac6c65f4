--------------------------------- MODULE Screens --------------------------------
(***************************************************************************)
(* What staff, customers and drivers have on their screens: the planning   *)
(* of a hub, the updates of an order, and the room of a trip.  The three   *)
(* share no state here, so ScreensSpec has the behaviours of each, one     *)
(* after the other: while one moves, the other two are as they began.      *)
(***************************************************************************)
CONSTANTS
  \* Of the planning: requests of staff, and the trips and drivers of the hub.
  Clerk, HubTrip, HubDriver, Orders, Vehicles, Size, Capacity, NoTrip,
  \* Of the updates: requests that write the orders, and who placed each.
  Writer, Cargo, PlacedBy, User, Review, Recipients, MaxAttempts, PageSize, PutStatuses,
  MaxEvents, MaxPuts,
  \* Of the rooms.
  Socket, Account, Trip, Driver, TTL, MaxTime

VARIABLES
  hubOrder, hubTrip, screen, board, changedHub, desk, shared,
  status, events, inbox, page, timeline, update, puts, reviewed, lost, changedInbox, overlapped,
  now, tripRow, socket, answers, room, await, flip, joined, answer, heard

planningVars == <<hubOrder, hubTrip, screen, board, changedHub, desk, shared>>
updatesVars ==
  <<status, events, inbox, page, timeline, update, puts, reviewed, lost, changedInbox,
    overlapped>>
roomsVars == <<now, tripRow, socket, answers, room, await, flip, joined, answer, heard>>

Planning == INSTANCE DispatchPlanning WITH
  Handler <- Clerk, Trip <- HubTrip, Driver <- HubDriver, order <- hubOrder, trip <- hubTrip,
  changed <- changedHub, task <- desk, contended <- shared

Updates == INSTANCE OrderUpdates WITH
  Handler <- Writer, Order <- Cargo, Customer <- PlacedBy, task <- update, told <- reviewed,
  changed <- changedInbox, contended <- overlapped

Rooms == INSTANCE TrackingRooms WITH trip <- tripRow, cache <- answers, task <- await

ScreensInit == Planning!Init /\ Updates!Init /\ Rooms!Init

PlanningMove ==
  Updates!Init /\ Rooms!Init /\ Planning!Next /\ UNCHANGED <<updatesVars, roomsVars>>
UpdatesMove ==
  Planning!Init /\ Rooms!Init /\ Updates!Next /\ UNCHANGED <<planningVars, roomsVars>>
RoomsMove ==
  Planning!Init /\ Updates!Init /\ Rooms!Next /\ UNCHANGED <<planningVars, updatesVars>>

ScreensSpec ==
  /\ ScreensInit
  /\ [][PlanningMove \/ UpdatesMove \/ RoomsMove]_<<planningVars, updatesVars, roomsVars>>

\* Every variable of the three has its type.
ScreensTypeOK == Planning!TypeOK /\ Updates!TypeOK /\ Rooms!TypeOK

\* What is suggested can be done: see DispatchPlanning.
PreviewSound == Planning!PreviewSound

\* What is approved, from however old a screen, fits: see DispatchPlanning.
ApprovalSound == Planning!ApprovalSound

\* The board shows what did not change as it is: see DispatchPlanning.
BoardCoherent == Planning!BoardCoherent

\* Every commit is announced, to all its recipients, once: see OrderUpdates.
UpdatesAccounted == Updates!UpdatesAccounted

\* Two queries of one answer agree: see OrderUpdates.
AnswersCoherent == Updates!AnswersCoherent

\* Who hears of a trip may, or might not long before: see TrackingRooms.
RoomsSound == Rooms!RoomsSound
================================================================================
