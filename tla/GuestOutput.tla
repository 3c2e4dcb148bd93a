----------------------------- MODULE GuestOutput ------------------------------
(***************************************************************************)
(* Presenter (ui/presenter.cc): how a frame gets from the thread that      *)
(* emulates the GPU to the window.                                         *)
(*                                                                         *)
(* Three images pass through a mailbox: the refresher writes one, publishes*)
(* it as "ready", and takes the one that nobody uses; a consumer - the     *)
(* painting thread or a screenshot - makes the ready image its "acquired"  *)
(* one. One atomic word holds the two indices. Who paints is the paint     *)
(* mode: nobody, the UI thread when asked through the window, or the       *)
(* refreshing thread itself, while there is no user interface to draw on   *)
(* top. The UI thread changes the mode under paint_mode_mutex_, which the  *)
(* refresher holds while it paints.                                        *)
(***************************************************************************)
EXTENDS Integers

CONSTANTS
  MaxFrames,    \* bound: frames the guest produces
  MaxChanges,   \* bound: resizes, surface changes, drawer changes, screenshots
  MaxOutdated,  \* bound: paints that find the connection outdated
  FromGuest,    \* cvar host_present_from_non_ui_thread
  Exposes       \* the window system asks a window that gets a surface to paint

ASSUME BoundAssumption == MaxFrames \in Nat /\ MaxChanges \in Nat /\ MaxOutdated \in Nat
ASSUME SwitchAssumption == FromGuest \in BOOLEAN /\ Exposes \in BOOLEAN

Torn == -1          \* what an image holds while it is written
Images == 0..2

VARIABLES
  acquired, ready,  \* guest_output_mailbox_acquired_and_ready_
  writable,         \* guest_output_mailbox_writable_
  content,          \* the frame each image holds
  consumer,         \* holder of guest_output_mailbox_consumer_mutex_
  frames,           \* frames published
  active,           \* guest_output_active_last_refresh_
  guest, last,      \* where the refreshing thread is, the acquired image it saw
  mode,             \* paint_mode_
  surface,          \* surface_ # nullptr
  connection, vsync, optimal,  \* surface_paint_connection_state_ and its flags
  drawers,          \* ui_drawers_ is not empty
  ui, drawUi, again,\* where the UI thread is, and locals of PaintFromUIThread
  requested,        \* ui_thread_paint_requested_
  invalid,          \* the window system owes the window a paint event
  shown, shownUi,   \* the frame last presented, and whether drawers drew on it
  offered,          \* history: the newest frame presented, or refused by the host
  changes, outdated

mailbox == <<acquired, ready, writable, content, frames, active, last>>
link == <<surface, connection, vsync, optimal>>
paint == <<drawUi, again, requested, invalid>>
screen == <<shown, shownUi, offered>>
bounds == <<changes, outdated>>
vars == <<mailbox, consumer, guest, mode, link, drawers, ui, paint, screen, bounds>>

Init ==
  /\ acquired = 0 /\ ready = 0 /\ writable = 1
  /\ content = [i \in Images |-> 0] /\ frames = 0 /\ active = FALSE /\ last = 0
  /\ consumer = "none" /\ guest = "idle" /\ mode = "none"
  /\ surface = FALSE /\ connection = "retry" /\ vsync = FALSE /\ optimal = FALSE
  /\ drawers \in BOOLEAN
  /\ ui = "idle" /\ drawUi = FALSE /\ again = FALSE
  /\ requested = FALSE /\ invalid = FALSE
  /\ shown = 0 /\ shownUi = FALSE /\ offered = 0
  /\ changes = 0 /\ outdated = 0

(* The refresher holds paint_mode_mutex_ while it paints.                  *)
GuestPaints == guest \in {"acquire", "read"}
SetMode(m) == (mode = m \/ ~GuestPaints) /\ mode' = m

DesiredMode(paintable, drawn) ==
  IF ~paintable THEN "none"
  ELSE IF FromGuest /\ ~vsync /\ ~drawn THEN "guest" ELSE "ui"

(* Only the first request since the last paint reaches the window.         *)
RequestPaint == requested' = TRUE /\ invalid' = (invalid \/ ~requested)
------------------------------------------------------------------------------
(* The refreshing thread *)

Refresh ==
  /\ guest = "idle" /\ frames < MaxFrames
  /\ guest' = "write" /\ content' = [content EXCEPT ![writable] = Torn]
  /\ UNCHANGED <<acquired, ready, writable, frames, active, last, consumer, mode,
                 link, drawers, ui, paint, screen, bounds>>

(* The refresher fails, or writes an image; a blank one is published once. *)
Written ==
  /\ guest = "write"
  /\ \/ /\ guest' = "idle" /\ UNCHANGED <<content, frames, active>>
     \/ /\ guest' = "publish" /\ frames' = frames + 1
        /\ content' = [content EXCEPT ![writable] = frames']
        /\ active' \in {TRUE, ~active}
  /\ UNCHANGED <<acquired, ready, writable, last, consumer, mode, link, drawers, ui,
                 paint, screen, bounds>>

(* The compare-exchange loop: the acquired index is kept.                  *)
Publish ==
  /\ guest = "publish" /\ guest' = "rotate"
  /\ ready' = writable /\ last' = acquired
  /\ UNCHANGED <<acquired, writable, content, frames, active, consumer, mode, link,
                 drawers, ui, paint, screen, bounds>>

\* The next writable image is simply the next one
Rotate_InTurn ==
  /\ guest = "rotate" /\ guest' = "notify"
  /\ writable' = (writable + 1) % 3
  /\ UNCHANGED <<acquired, ready, content, frames, active, last, consumer, mode, link,
                 drawers, ui, paint, screen, bounds>>

(* A consumer may have acquired the new image since the exchange.          *)
Rotate ==
  /\ guest = "rotate" /\ guest' = "notify"
  /\ writable' = IF last = writable THEN (writable + 1) % 3
                 ELSE (3 - last - writable) % 3
  /\ UNCHANGED <<acquired, ready, content, frames, active, last, consumer, mode, link,
                 drawers, ui, paint, screen, bounds>>

\* The window is not asked when the UI thread paints
Notify_Silent ==
  /\ guest = "notify"
  /\ guest' = IF mode = "guest" /\ connection = "paintable" THEN "acquire" ELSE "idle"
  /\ UNCHANGED <<mailbox, consumer, mode, link, drawers, ui, paint, screen, bounds>>

Notify ==
  /\ guest = "notify"
  /\ IF mode = "ui" THEN RequestPaint ELSE UNCHANGED <<requested, invalid>>
  /\ guest' = IF mode = "guest" /\ connection = "paintable" THEN "acquire" ELSE "idle"
  /\ UNCHANGED <<mailbox, consumer, mode, link, drawers, ui, drawUi, again, screen,
                 bounds>>
------------------------------------------------------------------------------
(* Consuming the guest output *)

(* Under the consumer mutex: the ready image becomes the acquired one.     *)
Consume(who) == consumer = "none" /\ consumer' = who /\ acquired' = ready

(* PaintAndPresent. A connection that was optimal once is remade when it   *)
(* is not any more; an outdated one shows nothing; nor does kNotPresented, *)
(* which changes nothing. The loss of the GPU ends the program.            *)
Present(overlay) ==
  /\ consumer' = "none"
  /\ \/ /\ shown' = content[acquired] /\ shownUi' = overlay /\ offered' = shown'
        /\ \/ optimal' = TRUE /\ UNCHANGED connection
           \/ /\ connection' = IF optimal THEN "outdated" ELSE connection
              /\ UNCHANGED optimal
        /\ UNCHANGED outdated
     \/ /\ offered' = content[acquired]
        /\ UNCHANGED <<connection, optimal, shown, shownUi, outdated>>
     \/ /\ outdated < MaxOutdated /\ outdated' = outdated + 1
        /\ connection' = "outdated" /\ UNCHANGED <<optimal, screen>>

GuestConsume ==
  /\ guest = "acquire" /\ guest' = "read" /\ Consume("guest")
  /\ UNCHANGED <<ready, writable, content, frames, active, last, mode, link, drawers,
                 ui, paint, screen, bounds>>

GuestPresent ==
  /\ guest = "read" /\ guest' = "idle" /\ Present(FALSE)
  /\ IF connection' = "outdated" THEN RequestPaint ELSE UNCHANGED <<requested, invalid>>
  /\ UNCHANGED <<mailbox, mode, surface, vsync, drawers, ui, drawUi, again, changes>>

Capture ==
  /\ changes < MaxChanges /\ changes' = changes + 1 /\ Consume("capture")
  /\ UNCHANGED <<ready, writable, content, frames, active, last, guest, mode, link,
                 drawers, ui, paint, screen, outdated>>

CaptureEnd ==
  /\ consumer = "capture" /\ consumer' = "none"
  /\ UNCHANGED <<mailbox, guest, mode, link, drawers, ui, paint, screen, bounds>>

GuestStep == \/ Written \/ Publish \/ Rotate \/ Notify
             \/ GuestConsume \/ GuestPresent
------------------------------------------------------------------------------
(* PaintFromUIThread, from the window's paint event, which may force it *)

UiGoto(from, to) == ui = from /\ ui' = to

OnPaint ==
  /\ ui = "idle" /\ invalid /\ invalid' = FALSE
  /\ IF surface
     THEN /\ drawUi' = drawers /\ requested' = FALSE /\ again' = FALSE
          /\ \E force \in BOOLEAN :
               ui' = IF force \/ drawers \/ requested THEN "own" ELSE "tail"
     ELSE UNCHANGED <<ui, drawUi, again, requested>>
  /\ UNCHANGED <<mailbox, consumer, guest, mode, link, drawers, screen, bounds>>

\* The connection is taken without waiting for the refresher's paint
TakeOwnership_NoLock ==
  /\ UiGoto("own", "recover")
  /\ mode' = IF mode = "guest" THEN "ui" ELSE mode
  /\ UNCHANGED <<mailbox, consumer, guest, link, drawers, paint, screen, bounds>>

TakeOwnership ==
  /\ UiGoto("own", "recover")
  /\ SetMode(IF mode = "guest" THEN "ui" ELSE mode)
  /\ UNCHANGED <<mailbox, consumer, guest, link, drawers, paint, screen, bounds>>

(* UpdateSurfacePaintConnection up to the mode. A surface reported         *)
(* unusable is not tried again.                                            *)
Connect ==
  \/ connection = "unusable" /\ UNCHANGED <<connection, vsync, optimal>>
  \/ /\ connection # "unusable"
     /\ connection' = "paintable" /\ optimal' = FALSE /\ vsync' \in BOOLEAN
  \/ /\ connection # "unusable" /\ connection' \in {"retry", "unusable"}
     /\ UNCHANGED <<vsync, optimal>>

Recover ==
  /\ ui = "recover"
  /\ IF connection = "outdated" THEN Connect ELSE UNCHANGED <<connection, vsync, optimal>>
  /\ ui' = IF connection' = "paintable" THEN "ready" ELSE "unpaintable"
  /\ UNCHANGED <<mailbox, consumer, guest, mode, surface, drawers, paint, screen, bounds>>

Ready ==
  /\ UiGoto("ready", "acquire") /\ SetMode("ui")
  /\ UNCHANGED <<mailbox, consumer, guest, link, drawers, paint, screen, bounds>>

UiConsume ==
  /\ UiGoto("acquire", "read") /\ Consume("ui")
  /\ UNCHANGED <<ready, writable, content, frames, active, last, guest, mode, link,
                 drawers, paint, screen, bounds>>

(* A drawer may remove the last drawer, itself, while it draws.            *)
LastDrawerLeaves ==
  /\ ui = "read" /\ drawUi /\ drawers /\ drawers' = FALSE
  /\ changes < MaxChanges /\ changes' = changes + 1
  /\ UNCHANGED <<mailbox, consumer, guest, mode, link, ui, paint, screen, outdated>>

UiPresent ==
  /\ ui = "read" /\ Present(drawUi)
  /\ again' = (connection' = "outdated")
  /\ ui' = IF connection' = "paintable" THEN "tail" ELSE "unpaintable"
  /\ UNCHANGED <<mailbox, guest, mode, surface, vsync, drawers, drawUi, requested,
                 invalid, changes>>

Unpaintable ==
  /\ UiGoto("unpaintable", "tail") /\ SetMode("none")
  /\ UNCHANGED <<mailbox, consumer, guest, link, drawers, paint, screen, bounds>>

(* Painting goes back to the refresher, unless it is lost.                 *)
Tail ==
  /\ UiGoto("tail", "ask")
  /\ SetMode(IF mode = "none" THEN "none" ELSE DesiredMode(TRUE, drawers))
  /\ UNCHANGED <<mailbox, consumer, guest, link, drawers, paint, screen, bounds>>

(* The end of PaintFromUIThread and of the two handlers below. What drew   *)
(* may ask to draw again (the continuous repaint of the user interface).   *)
Ask ==
  /\ UiGoto("ask", "idle")
  /\ \E tick \in BOOLEAN :
       IF again \/ (mode # "none" /\ drawUi /\ (drawers => tick))
       THEN RequestPaint ELSE UNCHANGED <<requested, invalid>>
  /\ drawUi' = FALSE /\ again' = FALSE
  /\ UNCHANGED <<mailbox, consumer, guest, mode, link, drawers, screen, bounds>>
------------------------------------------------------------------------------
(* Events of the window, handled by the UI thread *)

Change == ui = "idle" /\ changes < MaxChanges /\ changes' = changes + 1

\* OnSurfaceResizeFromUIThread
Resize ==
  /\ surface /\ Change /\ ui' = "connect"
  /\ SetMode(IF mode = "guest" THEN "ui" ELSE mode)
  /\ UNCHANGED <<mailbox, consumer, guest, link, drawers, paint, screen, outdated>>

\* SetWindowSurfaceFromUIThread with a new surface
Attach ==
  /\ ~surface /\ Change /\ ui' = "connect"
  /\ surface' = TRUE /\ invalid' = (invalid \/ Exposes)
  /\ UNCHANGED <<mailbox, consumer, guest, mode, connection, vsync, optimal, drawers,
                 drawUi, again, requested, screen, outdated>>

Reconnect ==
  /\ UiGoto("connect", "settle") /\ Connect
  /\ again' \in IF connection' = "paintable" THEN {TRUE, connection = "retry"} ELSE {FALSE}
  /\ UNCHANGED <<mailbox, consumer, guest, mode, surface, drawers, drawUi, requested,
                 invalid, screen, bounds>>

Settle ==
  /\ UiGoto("settle", "ask")
  /\ SetMode(DesiredMode(connection = "paintable", drawers))
  /\ UNCHANGED <<mailbox, consumer, guest, link, drawers, paint, screen, bounds>>

\* SetWindowSurfaceFromUIThread without one, in two steps
Detach ==
  /\ surface /\ Change /\ ui' = "disconnect" /\ SetMode("none")
  /\ UNCHANGED <<mailbox, consumer, guest, link, drawers, paint, screen, outdated>>

Disconnect ==
  /\ UiGoto("disconnect", "idle")
  /\ surface' = FALSE /\ connection' = "retry" /\ vsync' = FALSE
  /\ UNCHANGED <<mailbox, consumer, guest, mode, optimal, drawers, paint, screen, bounds>>

\* AddUIDrawer and RemoveUIDrawer, with HandleUIDrawersChange
ToggleDrawers ==
  /\ Change /\ drawers' = ~drawers
  /\ IF mode = "none" THEN UNCHANGED <<mode, invalid>>
     ELSE SetMode(DesiredMode(TRUE, drawers')) /\ invalid' = TRUE
  /\ UNCHANGED <<mailbox, consumer, guest, link, ui, drawUi, again, requested, screen,
                 outdated>>

UiStep == \/ OnPaint \/ TakeOwnership \/ Recover \/ Ready \/ UiConsume \/ UiPresent
          \/ Unpaintable \/ Tail \/ Ask \/ Reconnect \/ Settle \/ Disconnect

Next == \/ Refresh \/ GuestStep \/ UiStep \/ Capture \/ CaptureEnd
        \/ LastDrawerLeaves \/ Resize \/ Attach \/ Detach \/ ToggleDrawers

Spec == Init /\ [][Next]_vars

(* Each thread finishes what it began, a screenshot ends, and the window   *)
(* system delivers the paint event it owes. Nobody has to refresh, resize  *)
(* or change anything.                                                     *)
FairSpec == Spec /\ WF_vars(GuestStep) /\ WF_vars(UiStep) /\ WF_vars(CaptureEnd)
------------------------------------------------------------------------------
Modes == {"none", "ui", "guest"}
Connections == {"retry", "unusable", "paintable", "outdated"}

Values ==
  /\ acquired \in Images /\ ready \in Images /\ writable \in Images /\ last \in Images
  /\ content \in [Images -> Torn..MaxFrames] /\ frames \in 0..MaxFrames
  /\ consumer \in {"none", "guest", "ui", "capture"}
  /\ guest \in {"idle", "write", "publish", "rotate", "notify", "acquire", "read"}
  /\ mode \in Modes /\ connection \in Connections
  /\ ui \in {"idle", "own", "recover", "ready", "acquire", "read", "unpaintable",
             "tail", "ask", "connect", "settle", "disconnect"}
  /\ shown \in Torn..MaxFrames /\ offered \in Torn..MaxFrames
  /\ changes \in 0..MaxChanges /\ outdated \in 0..MaxOutdated

Flags ==
  /\ active \in BOOLEAN /\ surface \in BOOLEAN /\ vsync \in BOOLEAN
  /\ optimal \in BOOLEAN /\ drawers \in BOOLEAN /\ drawUi \in BOOLEAN
  /\ again \in BOOLEAN /\ requested \in BOOLEAN /\ invalid \in BOOLEAN
  /\ shownUi \in BOOLEAN

TypeOK == Values /\ Flags

(* Nobody is given the image that is written, and neither image that a     *)
(* consumer may take is half written (presenter.h:934: the writable image  *)
(* is different from both).                                                *)
ImagesApart ==
  /\ guest # "rotate" => writable \notin {acquired, ready}
  /\ Torn \notin {content[acquired], content[ready]}

(* The connection and the window have one user at a time: while the UI     *)
(* thread changes the connection or paints, the refresher does not paint,  *)
(* and the refresher's requests find a window with a surface.              *)
OwnersApart ==
  /\ TypeOK /\ ImagesApart
  /\ GuestPaints => ui \notin {"recover", "ready", "acquire", "read", "unpaintable",
                               "connect", "settle", "disconnect"}
  /\ mode # "none" \/ GuestPaints => surface

(* The window never goes back to an older frame, whoever paints it.        *)
NeverBackwards == [][shown' >= shown]_shown

Linked == surface /\ connection \in {"paintable", "outdated"}

(* No frame is forgotten: while the window is connected and the newest     *)
(* frame was neither presented nor refused by the host, one of the two     *)
(* threads is at work, or the window system owes the window a paint event. *)
NoFrameForgotten ==
  Linked /\ offered < frames => guest # "idle" \/ ui # "idle" \/ invalid

(* Once the surface stays connected, every frame that was published, or a  *)
(* later one, reaches the window: whatever the mode was when it came, and  *)
(* whatever resizes, mode changes, lost surfaces and outdated connections  *)
(* were on the way. Only what the host itself refuses to present           *)
(* (kNotPresented, after which nobody tries again) may be missing.         *)
LatestShown ==
  \A n \in 1..MaxFrames : <>[]Linked /\ <>(frames >= n) => <>(offered >= n)

(* A user interface that was removed leaves the window                     *)
(* (presenter.cc:1330-1334).                                               *)
RemovedUiLeaves == <>[](Linked /\ ~drawers) => <>[]~shownUi
==============================================================================
