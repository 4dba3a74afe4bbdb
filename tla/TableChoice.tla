----------------------------- MODULE TableChoice -----------------------------
(***************************************************************************)
(* From a slot of the drawn map to the table of a booking: the tables and  *)
(* locations of the restaurant (tables.service.ts, zones.service.ts,       *)
(* map.service.ts, the migration that binds tables to slots) and the page  *)
(* of a guest (GuestApp.tsx, tableMapIdentity.ts).                         *)
(*                                                                         *)
(* A table is a row with a name of its own (its UUID); its number is a     *)
(* text that the owner may change.  The map draws slots, labelled by the   *)
(* numbers the tables once had.  Before the migration a slot shows the     *)
(* table with the number of its label; afterwards the table that is bound  *)
(* to the slot, whatever its number is.  The page keeps a copy of all this,*)
(* checks the chosen table again when the form is sent, and sends the name *)
(* and the number that it knew at the press.                               *)
(*                                                                         *)
(* This module is about one date and time; whoever else books, sits at,    *)
(* hides or closes a table makes it busy then.  What the page shows of     *)
(* this, and of closed locations, may be of an earlier moment or for       *)
(* another time, so here any slot may look free: the check and the server  *)
(* decide.  The answers that the check waits for are taken as of one       *)
(* moment.                                                                 *)
(***************************************************************************)
EXTENDS Naturals, FiniteSets

CONSTANTS
    Slot,       \* labels of the drawn slots, numbers from 1
    LocationOf, \* the location that draws each slot
    Spare,      \* a number that no slot has
    MaxTables,  \* bound on the rows that are ever created
    Submit,     \* presses of the button of the form
    MaxChanges  \* bound on the changes by the staff and by other guests

ASSUME ChoiceAssumption ==
    /\ MaxTables \in Nat /\ \E n \in 1..MaxTables : Slot = 1..n
    /\ Spare \in Nat \ (Slot \cup {0})
    /\ MaxChanges \in Nat

VARIABLES
    tables, created, \* the rows and how many were created
    prepared,        \* table_map_identities exists
    zones,           \* the locations: open, closed or removed
    busy,            \* tables that are not free
    changes,         \* counts the changes
    step, location,  \* the screen of the page and what it shows
    picked,          \* selectedTable
    view,            \* the copy of the map: its tables
    submits          \* the presses that wait, and what became of them

server == <<tables, created, prepared, zones, busy, changes>>
page == <<step, location, picked, view>>

Location == {LocationOf[s] : s \in Slot}
Numbers == Slot \cup {Spare}
Name == 1..MaxTables

\* number 0: there is no such row; key 0: not bound to a slot.
NoZone == ""
Table == [number : Numbers \cup {0}, key : Slot \cup {0}, zone : Location \cup {NoZone}]
NoRow == [number |-> 0, key |-> 0, zone |-> NoZone]
Step == {"home", "location_choice", "waterfront_choice", "map", "form", "success"}

\* TableItem as the page keeps it: name 0 stands for visual-<number>, a slot
\* without a table.  slot: the slot it was picked by; bound: on a prepared map.
Pick == [name : Name \cup {0}, number : Numbers, slot : Slot \cup {0}, bound : BOOLEAN]
NoPick == [name |-> 0, number |-> Spare, slot |-> 0, bound |-> FALSE]

NoView == [loaded |-> FALSE, tables |-> [n \in Name |-> NoRow], prepared |-> FALSE]
View == [loaded : BOOLEAN, tables : [Name -> Table], prepared : BOOLEAN]

\* at: how far the press is; booked: the table of the booking it made.
Sent == [at : {"idle", "check", "resolve", "create", "made", "over"}, heard : BOOLEAN,
         pick : Pick, location : Location, booked : Name \cup {0}]
NotSent == [at |-> "idle", heard |-> TRUE, pick |-> NoPick, location |-> LocationOf[1],
            booked |-> 0]

ChoiceTypeOK ==
    /\ tables \in [Name -> Table] /\ created \in 0..MaxTables
    /\ prepared \in BOOLEAN
    /\ zones \in [Location -> {"open", "closed", "none"}]
    /\ busy \subseteq Name /\ changes \in 0..MaxChanges
    /\ step \in Step /\ location \in Location
    /\ picked \in Pick /\ view \in View
    /\ submits \in [Submit -> Sent]

-----------------------------------------------------------------------------
(* The restaurant. *)

Row(n) == tables[n].number /= 0
Numbered(rows, number) == {n \in Name : rows[n].number = number}

\* ensureDefaultLocations: while the map is not prepared, every start brings back
\* the locations and the table of every slot, and moves tables by their numbers.
NewSlots == {s \in Slot : Numbered(tables, s) = {}}
NewName(s) == created + Cardinality({o \in NewSlots : o <= s})
EnsureDefaultLocations ==
    /\ zones' = [l \in Location |-> IF zones[l] = "none" THEN "open" ELSE zones[l]]
    /\ created' = created + Cardinality(NewSlots) /\ created' <= MaxTables
    /\ tables' = [n \in Name |->
        IF n \in created + 1..created'
        THEN LET s == CHOOSE s \in NewSlots : NewName(s) = n
             IN  [number |-> s, key |-> 0, zone |-> LocationOf[s]]
        ELSE IF tables[n].number \in Slot
        THEN [tables[n] EXCEPT !.zone = LocationOf[tables[n].number]]
        ELSE tables[n]]

\* candidates: a table is bound to the slot that has its number.
Bound == [n \in Name |->
    IF tables[n].number \in Slot THEN [tables[n] EXCEPT !.key = tables[n].number]
    ELSE tables[n]]

\* The site starts with the tables of its slots, before or after the migration.
ChoiceInit ==
    /\ prepared \in BOOLEAN
    /\ tables = [n \in Name |->
        IF n \in Slot THEN [number |-> n, key |-> IF prepared THEN n ELSE 0,
                            zone |-> LocationOf[n]]
        ELSE NoRow]
    /\ created \in Name /\ Slot = 1..created
    /\ zones = [l \in Location |-> "open"]
    /\ busy = {} /\ changes = 0
    /\ step = "home" /\ location = LocationOf[1]
    /\ picked = NoPick /\ view = NoView
    /\ submits = [s \in Submit |-> NotSent]

\* A change by somebody else.
Change == changes < MaxChanges /\ changes' = changes + 1 /\ UNCHANGED <<page, submits>>

\* onModuleInit.
Restart ==
    /\ Change /\ ~prepared /\ EnsureDefaultLocations
    /\ UNCHANGED <<prepared, busy>>

\* CreateTableMapIdentities.up.
Prepare ==
    /\ Change /\ ~prepared /\ prepared' = TRUE /\ tables' = Bound
    /\ UNCHANGED <<created, zones, busy>>

\* TablesService.create; a number in use returns its table.  An update may give
\* it a location.
CreateTable(number) ==
    /\ Change /\ Numbered(tables, number) = {} /\ created < MaxTables
    /\ created' = created + 1
    /\ tables' = [tables EXCEPT ![created + 1] =
                      [number |-> number, key |-> 0, zone |-> NoZone]]
    /\ UNCHANGED <<prepared, zones, busy>>

\* TablesService.update; the index on the numbers refuses a second table.  A
\* request for both is two changes here.
UpdateTable(n, number, zone) ==
    /\ Change /\ Row(n) /\ Numbered(tables, number) \subseteq {n}
    /\ number = tables[n].number \/ zone = tables[n].zone
    /\ zone /= tables[n].zone => zone \in {l \in Location : zones[l] /= "none"}
    /\ tables' = [tables EXCEPT ![n].number = number, ![n].zone = zone]
    /\ UNCHANGED <<created, prepared, zones, busy>>

\* TablesService.remove: its bookings stay without a table.
RemoveTable(n) ==
    /\ Change /\ Row(n)
    /\ tables' = [tables EXCEPT ![n] = NoRow]
    /\ busy' = busy \ {n}
    /\ UNCHANGED <<created, prepared, zones>>

\* create, close, open and remove of ZonesService.
ChangeZone(l, to) ==
    /\ Change /\ zones[l] /= to
    /\ zones[l] = "none" => to = "open"
    /\ zones' = [zones EXCEPT ![l] = to]
    /\ tables' = [n \in Name |-> IF to = "none" /\ tables[n].zone = l
                                 THEN [tables[n] EXCEPT !.zone = NoZone] ELSE tables[n]]
    /\ UNCHANGED <<created, prepared, busy>>

\* Somebody else takes a table or gives it back.
ChangeBusy(n) ==
    /\ Change /\ Row(n)
    /\ \A s \in Submit : submits[s].booked /= n
    /\ busy' = IF n \in busy THEN busy \ {n} ELSE busy \cup {n}
    /\ UNCHANGED <<tables, created, prepared, zones>>

-----------------------------------------------------------------------------
(* The page. *)

Closed(n) == tables[n].zone /= NoZone /\ zones[tables[n].zone] = "closed"

\* getFullMap.
FullMap == [loaded |-> TRUE, tables |-> tables, prepared |-> prepared]

\* refreshPublicSettings, refreshMap.
RefreshMap ==
    /\ view' = FullMap
    /\ UNCHANGED <<server, step, location, picked, submits>>

\* The screen changes, and nothing else.
Show(from, to) ==
    /\ step = from /\ step' = to
    /\ UNCHANGED <<server, location, picked, view, submits>>

\* The first screen: to the choice of a place.
HomeScreen == Show("home", "location_choice")

\* openLocation, unless the page shows it closed.
OpenLocation(l) ==
    /\ location' = l /\ picked' = NoPick /\ step' = "map"
    /\ UNCHANGED <<server, view, submits>>

\* The hall, or one of the places at the water.
LocationScreen ==
    \/ Show("location_choice", "waterfront_choice")
    \/ step = "location_choice" /\ OpenLocation(LocationOf[1])
WaterfrontScreen(l) ==
    /\ step = "waterfront_choice" /\ l /= LocationOf[1]
    /\ OpenLocation(l)

\* goBack, by the button or by a swipe.
GoBack ==
    \/ Show("form", "map")
    \/ location = LocationOf[1] /\ Show("map", "location_choice")
    \/ location /= LocationOf[1] /\ Show("map", "waterfront_choice")
    \/ Show("waterfront_choice", "location_choice")
    \/ Show("location_choice", "home")

\* A bug: by its number when no table is bound to the slot.
TableByAnyNumber(rows, slot, isPrepared) ==
    LET bound == {n \in Name : rows[n].key = slot}
    IN  IF isPrepared /\ bound /= {} THEN bound ELSE Numbered(rows, slot)

\* findTableForMapSlot: on a prepared map never another table with that number.
TableForSlot(rows, slot, isPrepared) ==
    {n \in Name : IF isPrepared THEN rows[n].key = slot ELSE rows[n].number = slot}

\* What a press of a slot selects; a slot without a table goes by its label on a
\* map that is not prepared, and selects nothing on one that is.
Selected(slot) ==
    LET at == TableForSlot(view.tables, slot, view.prepared)
        visual == [name |-> 0, number |-> slot, slot |-> slot, bound |-> FALSE]
    IN  IF at = {} /\ ~view.prepared THEN {visual}
        ELSE {[name |-> n, number |-> view.tables[n].number, slot |-> slot,
               bound |-> view.prepared] : n \in at}

\* The map of the location, and the press of one of its slots.  The delay before
\* the form opens is left out.
MapScreen(slot) ==
    /\ step = "map" /\ LocationOf[slot] = location
    /\ picked' \in Selected(slot) /\ step' = "form"
    /\ UNCHANGED <<server, location, view, submits>>

\* submit, as far as the check; the button waits only for the creation.
FormScreen(s) ==
    /\ step = "form" /\ picked /= NoPick /\ submits[s].at = "idle"
    /\ \A o \in Submit :
        submits[o].heard => submits[o].at \notin {"resolve", "create", "made"}
    /\ submits' = [submits EXCEPT ![s] =
        [at |-> "check", heard |-> TRUE, pick |-> picked, location |-> location, booked |-> 0]]
    /\ UNCHANGED <<server, page>>

\* The table that the check finds again: by its name on a prepared map.
FreshTable(pick) ==
    IF prepared THEN {n \in Name : n = pick.name /\ Row(n)}
    ELSE Numbered(tables, pick.number)

\* Whether the check finds the table unavailable.
Unavailable(sent, fresh) ==
    \/ prepared /\ (fresh = {} \/ \E n \in fresh : tables[n].key = 0)
    \/ zones[sent.location] = "closed"
    \/ \E n \in fresh : Closed(n) \/ n \in busy

Renumbered(pick, fresh) == prepared /\ \E n \in fresh : tables[n].number /= pick.number

\* revalidateSelectedTableBeforeSubmit, with the choice as it was at the press.
Revalidate(s) ==
    LET sent == submits[s]
        fresh == FreshTable(sent.pick)
    IN  /\ sent.at = "check"
        /\ view' = FullMap
        /\ \/ /\ Unavailable(sent, fresh)
              /\ step' = "map" /\ UNCHANGED picked
              /\ submits' = [submits EXCEPT ![s] = NotSent]
           \/ /\ ~Unavailable(sent, fresh) /\ Renumbered(sent.pick, fresh)
              /\ picked' \in {[name |-> n, number |-> tables[n].number,
                               slot |-> tables[n].key, bound |-> TRUE] : n \in fresh}
              /\ submits' = [submits EXCEPT ![s] = NotSent]
              /\ UNCHANGED step
           \/ /\ ~Unavailable(sent, fresh) /\ ~Renumbered(sent.pick, fresh)
              /\ submits' = [submits EXCEPT ![s].at = "resolve"]
              /\ UNCHANGED <<step, picked>>
        /\ UNCHANGED <<server, location>>

\* The server does not answer the check.
CheckFails(s) ==
    /\ submits[s].at = "check" /\ submits' = [submits EXCEPT ![s] = NotSent]
    /\ UNCHANGED <<server, page>>

\* resolveExisting: a table with the number exists.
ResolveExisting(s) ==
    /\ submits[s].at = "resolve"
    /\ Numbered(tables, submits[s].pick.number) /= {}
    /\ submits' = [submits EXCEPT ![s].at = "create"]
    /\ UNCHANGED <<server, page>>

\* resolveTableForBooking: by the name, else by the number, ...
Resolved(pick) ==
    IF pick.name /= 0 /\ Row(pick.name) THEN {pick.name}
    ELSE Numbered(tables, pick.number)

\* ... else a new table with that number.
WithTable(pick) ==
    IF Resolved(pick) /= {} THEN UNCHANGED <<tables, created>>
    ELSE /\ created < MaxTables /\ created' = created + 1
         /\ tables' = [tables EXCEPT ![created + 1] =
                           [number |-> pick.number, key |-> 0, zone |-> NoZone]]

\* BookingsService.create, in one transaction; a guest has one booking a day.
Create(s) ==
    LET sent == submits[s]
        found == Resolved(sent.pick)
    IN  /\ sent.at = "create"
        /\ \A o \in Submit : submits[o].booked = 0
        /\ \A n \in found : ~Closed(n) /\ n \notin busy
        /\ WithTable(sent.pick)
        /\ \E n \in IF found = {} THEN {created + 1} ELSE found :
            /\ busy' = busy \cup {n}
            /\ submits' = [submits EXCEPT ![s] = [sent EXCEPT !.at = "made", !.booked = n]]
        /\ UNCHANGED <<prepared, zones, changes, page>>

\* The creation is refused, or its answer does not get through.
CreateFails(s) ==
    /\ \/ /\ submits[s].at \in {"resolve", "create"}
          /\ submits' = [submits EXCEPT ![s] = NotSent]
       \/ /\ submits[s].at = "made" /\ submits[s].heard
          /\ submits' = [submits EXCEPT ![s].at = "over"]
    /\ UNCHANGED <<server, page>>

\* submit goes on with the answer: to the last screen, with a fresh map.
SuccessScreen(s) ==
    /\ submits[s].at = "made" /\ submits[s].heard
    /\ submits' = [submits EXCEPT ![s].at = "over"]
    /\ step' = "success" /\ view' = FullMap
    /\ UNCHANGED <<server, location, picked>>

\* From the last screen to the first.
Leave == Show("success", "home")

\* The page is loaded again: the screen and the table are kept (usePersistentState),
\* the rest starts anew, and no answer is heard any more.
Reload ==
    /\ view.loaded /\ view' = NoView
    /\ submits' = [s \in Submit |->
        IF submits[s].at \in {"idle", "check"} THEN NotSent
        ELSE [submits[s] EXCEPT !.heard = FALSE]]
    /\ UNCHANGED <<server, step, location, picked>>

-----------------------------------------------------------------------------
StaffNext ==
    \/ Restart \/ Prepare
    \/ \E number \in Numbers :
        \/ CreateTable(number)
        \/ \E n \in Name, zone \in Location \cup {NoZone} : UpdateTable(n, number, zone)
    \/ \E n \in Name : RemoveTable(n) \/ ChangeBusy(n)
    \/ \E l \in Location, to \in {"open", "closed", "none"} : ChangeZone(l, to)

PageNext ==
    \/ RefreshMap \/ HomeScreen \/ LocationScreen \/ GoBack \/ Leave \/ Reload
    \/ \E l \in Location : WaterfrontScreen(l)
    \/ \E slot \in Slot : MapScreen(slot)

SubmitNext ==
    \E s \in Submit :
        \/ FormScreen(s) \/ Revalidate(s) \/ CheckFails(s) \/ ResolveExisting(s)
        \/ Create(s) \/ CreateFails(s) \/ SuccessScreen(s)

ChoiceNext == StaffNext \/ PageNext \/ SubmitNext

ChoiceSpec == ChoiceInit /\ [][ChoiceNext]_<<server, page, submits>>

-----------------------------------------------------------------------------
\* A guest who pressed a slot of a prepared map gets the table that stands there,
\* whatever it is called by now, and was told the number it had when the form was
\* checked.  Only when that table was removed meanwhile is it another one, and then
\* one with the number that the guest was told.
PressedIsBooked ==
    \A s \in Submit : submits[s].booked = 0 /\ submits'[s].booked /= 0 =>
        LET pick == submits[s].pick
            booked == submits'[s].booked
        IN  pick.bound => \/ pick.slot /= 0 /\ tables'[booked].key = pick.slot
                          \/ ~Row(pick.name) /\ tables'[booked].number = pick.number

ToldTheNumber ==
    \A s \in Submit :
        submits[s].at = "check" /\ submits'[s].at = "resolve" /\ prepared =>
            tables[submits[s].pick.name].number = submits[s].pick.number

BookedWherePressed ==
    [][PressedIsBooked /\ ToldTheNumber]_<<server, page, submits>>
=============================================================================
