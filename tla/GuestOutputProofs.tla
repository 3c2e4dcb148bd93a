-------------------------- MODULE GuestOutputProofs ---------------------------
(***************************************************************************)
(* The guest output for any number of frames, changes and outdated paints: *)
(* OwnersApart, NeverBackwards and NoFrameForgotten.                       *)
(*                                                                         *)
(* OwnersApart is not inductive. It needs to know where the writable index *)
(* stands between the exchange and the rotation (Mailbox), and that nobody *)
(* but the UI thread moves the paint mode away from the refresher while it *)
(* paints (Owners). NeverBackwards follows from Mailbox, which orders the  *)
(* frames: shown, acquired, ready, published. NoFrameForgotten needs that  *)
(* requests reach the window (Requests) and that whatever keeps the newest *)
(* frame from it has led to a request, will, or is over (Coming).          *)
(***************************************************************************)
EXTENDS GuestOutput, TLAPS

Mailbox ==
  /\ guest # "rotate" => writable \notin {acquired, ready}
  /\ guest = "rotate" => /\ ready = writable /\ last # writable
                         /\ acquired \in {last, writable}
  /\ guest = "publish" => content[writable] = frames
  /\ guest = "write" => frames < MaxFrames
  /\ 0 <= content[acquired]
  /\ shown <= content[acquired] /\ offered <= content[acquired]
  /\ content[acquired] <= content[ready] /\ content[ready] <= frames

Busy == {"recover", "ready", "acquire", "read", "unpaintable",
         "connect", "settle", "disconnect"}

Owners ==
  /\ GuestPaints => mode = "guest"
  /\ mode = "guest" => ui \notin Busy
  /\ ui = "disconnect" => mode = "none"
  /\ ui # "idle" \/ mode # "none" => surface

Safe == Values /\ Mailbox /\ Owners

USE DEF Images, Torn

(* The presenter starts safe: all indices but the writable one agree.      *)
LEMMA SafeInit == Init => Safe /\ Flags
<1>. SUFFICES ASSUME Init
              PROVE  Safe /\ Flags
  OBVIOUS
<1>1. Values
  BY BoundAssumption DEF Init, Values, Modes, Connections
<1>2. Mailbox
  BY BoundAssumption DEF Init, Mailbox
<1>3. Owners
  BY DEF Init, Owners, GuestPaints, Busy
<1>4. Flags
  BY DEF Init, Flags
<1>. QED  BY <1>1, <1>2, <1>3, <1>4 DEF Safe

(* The index that is written next is the one that is neither acquired nor  *)
(* published.                                                              *)
LEMMA ThirdImage ==
  ASSUME NEW a \in Images, NEW b \in Images, a # b
  PROVE  (3 - a - b) % 3 \in Images \ {a, b}
<1>1. <<a, b>> \in {<<0, 1>>, <<0, 2>>, <<1, 0>>, <<1, 2>>, <<2, 0>>, <<2, 1>>}
  OBVIOUS
<1>. QED  BY <1>1

(* Every operation keeps the indices, the frames and the places.           *)
LEMMA ValuesStep ==
  ASSUME Safe, [Next]_vars
  PROVE  Values'
<1>. USE BoundAssumption
<1>. USE DEF Safe, Values, mailbox, link, screen, bounds, Modes, Connections
<1>1. CASE UNCHANGED vars
  BY <1>1 DEF vars
<1>2. CASE Refresh
  BY <1>2 DEF Refresh
<1>3. CASE Written
  <2>1. CASE UNCHANGED <<content, frames>>
    BY <1>3, <2>1 DEF Written
  <2>2. CASE frames' = frames + 1 /\ content' = [content EXCEPT ![writable] = frames']
    <3>1. guest = "write" /\ frames < MaxFrames
      BY <1>3 DEF Written, Mailbox
    <3>2. frames' \in 0..MaxFrames
      BY <2>2, <3>1
    <3>3. content' \in [Images -> Torn..MaxFrames]
      BY <2>2, <3>2
    <3>. QED  BY <1>3, <3>2, <3>3 DEF Written
  <2>. QED  BY <1>3, <2>1, <2>2 DEF Written
<1>4. CASE Publish
  BY <1>4 DEF Publish
<1>5. CASE Rotate
  <2>1. last = writable => (writable + 1) % 3 \in Images
    OBVIOUS
  <2>2. last # writable => (3 - last - writable) % 3 \in Images
    BY ThirdImage
  <2>3. writable' \in Images
    BY <1>5, <2>1, <2>2 DEF Rotate
  <2>. QED  BY <1>5, <2>3 DEF Rotate
<1>6. CASE Notify
  BY <1>6 DEF Notify
<1>7. CASE GuestConsume \/ Capture \/ UiConsume
  BY <1>7 DEF GuestConsume, Capture, UiConsume, Consume, UiGoto
<1>8. CASE GuestPresent
  BY <1>8 DEF GuestPresent, Present
<1>9. CASE UiPresent
  BY <1>9 DEF UiPresent, Present
<1>10. CASE CaptureEnd \/ LastDrawerLeaves
  BY <1>10 DEF CaptureEnd, LastDrawerLeaves
<1>11. CASE OnPaint
  BY <1>11 DEF OnPaint
<1>12. CASE TakeOwnership \/ Ready \/ Unpaintable \/ Tail
  BY <1>12 DEF TakeOwnership, Ready, Unpaintable, Tail, UiGoto, SetMode, DesiredMode
<1>13. CASE Recover \/ Reconnect
  BY <1>13 DEF Recover, Reconnect, Connect, UiGoto
<1>14. CASE Ask
  BY <1>14 DEF Ask, UiGoto
<1>15. CASE Resize \/ Attach \/ Detach
  BY <1>15 DEF Resize, Attach, Detach, Change, SetMode
<1>16. CASE Settle \/ Disconnect \/ ToggleDrawers
  BY <1>16 DEF Settle, Disconnect, ToggleDrawers, Change, UiGoto, SetMode, DesiredMode
<1>. QED
  BY <1>1, <1>2, <1>3, <1>4, <1>5, <1>6, <1>7, <1>8, <1>9, <1>10, <1>11, <1>12, <1>13,
     <1>14, <1>15, <1>16
  DEF Next, GuestStep, UiStep

(* Every operation keeps the flags Boolean.                                *)
LEMMA FlagsStep ==
  ASSUME Flags, [Next]_vars
  PROVE  Flags'
<1>. USE DEF Flags, mailbox, link, paint, screen
<1>1. CASE UNCHANGED vars
  BY <1>1 DEF vars
<1>2. CASE Refresh \/ Publish \/ Rotate
  BY <1>2 DEF Refresh, Publish, Rotate
<1>3. CASE Written
  BY <1>3, Zenon DEF Written
<1>4. CASE Notify
  BY <1>4, Zenon DEF Notify, RequestPaint
<1>5. CASE GuestConsume \/ Capture \/ UiConsume \/ CaptureEnd \/ Detach
  BY <1>5 DEF GuestConsume, Capture, UiConsume, CaptureEnd, Detach
<1>6. CASE GuestPresent
  BY <1>6, Zenon DEF GuestPresent, Present, RequestPaint
<1>7. CASE UiPresent
  BY <1>7, Zenon DEF UiPresent, Present
<1>8. CASE OnPaint
  BY <1>8, Zenon DEF OnPaint
<1>9. CASE TakeOwnership \/ Ready \/ Unpaintable \/ Tail \/ Settle \/ Resize
  <2>1. UNCHANGED <<mailbox, link, drawers, paint, screen>>
    BY <1>9 DEF TakeOwnership, Ready, Unpaintable, Tail, Settle, Resize
  <2>. QED  BY <2>1
<1>10. CASE Recover \/ Reconnect
  BY <1>10, ZenonT(30) DEF Recover, Reconnect, Connect
<1>11. CASE Ask
  BY <1>11, Zenon DEF Ask, RequestPaint
<1>12. CASE Attach \/ Disconnect
  BY <1>12, Zenon DEF Attach, Disconnect
<1>13. CASE LastDrawerLeaves \/ ToggleDrawers
  BY <1>13, ZenonT(30) DEF LastDrawerLeaves, ToggleDrawers
<1>. QED
  BY <1>1, <1>2, <1>3, <1>4, <1>5, <1>6, <1>7, <1>8, <1>9, <1>10, <1>11, <1>12, <1>13
  DEF Next, GuestStep, UiStep

(* Every operation keeps the three images apart and the frames in order.   *)
LEMMA MailboxStep ==
  ASSUME Safe, [Next]_vars
  PROVE  Mailbox'
<1>. USE BoundAssumption
<1>. USE DEF Safe, Values, Mailbox, mailbox, screen
<1>1. CASE UNCHANGED <<mailbox, guest, shown, offered>>
  BY <1>1
<1>2. CASE Refresh
  BY <1>2 DEF Refresh
<1>3. CASE Written
  <2>1. CASE UNCHANGED <<content, frames>>
    BY <1>3, <2>1 DEF Written
  <2>2. CASE frames' = frames + 1 /\ content' = [content EXCEPT ![writable] = frames']
    <3>1. guest = "write" /\ guest' # "rotate" /\ guest' # "write"
          /\ UNCHANGED <<acquired, ready, writable, last, shown, offered>>
      BY <1>3, <2>2 DEF Written
    <3>2. writable \notin {acquired, ready} /\ frames < MaxFrames
      BY <3>1
    <3>3. /\ content'[writable] = frames + 1
          /\ content'[acquired] = content[acquired] /\ content'[ready] = content[ready]
      BY <2>2, <3>2
    <3>. QED  BY <2>2, <3>1, <3>2, <3>3
  <2>. QED  BY <1>3, <2>1, <2>2 DEF Written
<1>4. CASE Publish
  BY <1>4 DEF Publish
<1>5. CASE Rotate
  <2>1. (3 - last - writable) % 3 \in Images \ {last, writable}
    BY <1>5, ThirdImage DEF Rotate
  <2>. QED  BY <1>5, <2>1 DEF Rotate
<1>6. CASE Notify
  BY <1>6 DEF Notify
<1>7. CASE GuestConsume \/ Capture \/ UiConsume
  BY <1>7 DEF GuestConsume, Capture, UiConsume, Consume
<1>8. CASE GuestPresent \/ UiPresent
  BY <1>8 DEF GuestPresent, UiPresent, Present
<1>9. ASSUME UNCHANGED vars \/ CaptureEnd \/ OnPaint \/ TakeOwnership \/ Recover \/ Ready
             \/ LastDrawerLeaves \/ Unpaintable \/ Tail \/ Ask
      PROVE  UNCHANGED <<mailbox, guest, shown, offered>>
  BY <1>9 DEF vars, CaptureEnd, OnPaint, TakeOwnership, Recover, Ready,
              LastDrawerLeaves, Unpaintable, Tail, Ask
<1>10. ASSUME Resize \/ Attach \/ Reconnect \/ Settle \/ Detach \/ Disconnect
              \/ ToggleDrawers
       PROVE  UNCHANGED <<mailbox, guest, shown, offered>>
  BY <1>10 DEF Resize, Attach, Reconnect, Settle, Detach, Disconnect, ToggleDrawers
<1>. QED
  BY <1>1, <1>2, <1>3, <1>4, <1>5, <1>6, <1>7, <1>8, <1>9, <1>10
  DEF Next, GuestStep, UiStep

(* Every operation keeps the connection with one user.                     *)
LEMMA OwnersStep ==
  ASSUME Safe, [Next]_vars
  PROVE  Owners'
<1>. USE DEF Safe, Owners, GuestPaints, Busy
<1>1. CASE UNCHANGED <<guest, mode, ui, surface>>
  BY <1>1
<1>2. CASE GuestStep \/ Refresh
  BY <1>2 DEF GuestStep, Refresh, Written, Publish, Rotate, Notify, GuestConsume,
              GuestPresent, link
<1>3. CASE OnPaint \/ TakeOwnership \/ Ready \/ Unpaintable \/ Tail
  BY <1>3 DEF OnPaint, TakeOwnership, Ready, Unpaintable, Tail, UiGoto, SetMode,
              DesiredMode, link
<1>4. CASE Recover \/ UiConsume \/ UiPresent \/ Ask \/ Reconnect
  BY <1>4 DEF Recover, UiConsume, UiPresent, Ask, Reconnect, UiGoto, link
<1>5. CASE Settle \/ Disconnect \/ ToggleDrawers
  BY <1>5 DEF Settle, Disconnect, ToggleDrawers, Change, UiGoto, SetMode, DesiredMode,
              link
<1>6. CASE Resize \/ Attach \/ Detach
  BY <1>6 DEF Resize, Attach, Detach, Change, SetMode, link
<1>7. ASSUME UNCHANGED vars \/ Capture \/ CaptureEnd \/ LastDrawerLeaves
      PROVE  UNCHANGED <<guest, mode, ui, surface>>
  BY <1>7 DEF vars, link, Capture, CaptureEnd, LastDrawerLeaves
<1>. QED
  BY <1>1, <1>2, <1>3, <1>4, <1>5, <1>6, <1>7 DEF Next, UiStep

(* The presenter is safe at every step (ui/presenter.cc).                  *)
THEOREM AlwaysSafe == Spec => [](Safe /\ Flags)
<1>1. Safe /\ Flags /\ [Next]_vars => (Safe /\ Flags)'
  BY ValuesStep, FlagsStep, MailboxStep, OwnersStep DEF Safe
<1>. QED  BY SafeInit, <1>1, PTL DEF Spec

(* Images and connection have one user at a time, however many frames and  *)
(* changes there are.                                                      *)
THEOREM Apart == Spec => []OwnersApart
<1>1. Safe /\ Flags => OwnersApart
  BY DEF Safe, Values, TypeOK, Mailbox, Owners, OwnersApart, ImagesApart, Busy, GuestPaints
<1>. QED  BY AlwaysSafe, <1>1, PTL

(* The window never goes back to an older frame, however many frames and   *)
(* changes there are.                                                      *)
THEOREM Forward == Spec => NeverBackwards
<1>1. Safe /\ [Next]_vars => [shown' >= shown]_shown
  <2>. SUFFICES ASSUME Safe, [Next]_vars, shown' # shown
                PROVE  shown' >= shown
    OBVIOUS
  <2>1. GuestPresent \/ UiPresent
    BY DEF Next, GuestStep, UiStep, vars, screen, Refresh, Written, Publish, Rotate,
           Notify, GuestConsume, Capture, CaptureEnd, OnPaint, TakeOwnership, Recover,
           Ready, UiConsume, LastDrawerLeaves, Unpaintable, Tail, Ask, Resize, Attach,
           Reconnect, Settle, Detach, Disconnect, ToggleDrawers
  <2>2. shown' = content[acquired]
    BY <2>1 DEF GuestPresent, UiPresent, Present, screen
  <2>3. shown \in Int /\ content[acquired] \in Int
    BY BoundAssumption DEF Safe, Values
  <2>. QED  BY <2>2, <2>3 DEF Safe, Mailbox
<1>. QED  BY AlwaysSafe, <1>1, PTL DEF Spec, NeverBackwards

------------------------------------------------------------------------------
(* No frame is forgotten, where a window with a new surface is painted.    *)

\* What the steps of a paint, of a reconnection and of a refresh rely on.
Stages ==
  /\ ui \in {"ready", "acquire", "read"} => connection = "paintable"
  /\ ui \in {"acquire", "read"} => mode = "ui"
  /\ ui = "read" => consumer = "ui"
  /\ guest = "read" => consumer = "guest"
  /\ ui = "settle" => mode # "guest" /\ connection # "outdated"
  /\ ui = "unpaintable" => connection # "paintable" /\ (connection = "outdated" => again)
  /\ again => ui \in {"unpaintable", "tail", "ask", "settle"}
  /\ ~surface => connection = "retry"
  /\ guest # "publish" => content[ready] = frames

\* A request reaches the window while it has a surface, and an outdated
\* connection that somebody may paint to has been asked to be remade.
Changing == {"recover", "unpaintable", "connect", "settle"}
Requests ==
  /\ surface /\ requested => invalid
  /\ mode # "none" /\ connection # "paintable" /\ ui \notin Changing
       => connection = "outdated" /\ (requested \/ ui = "own")

\* Somebody is at a paint that will offer the newest frame.
Painting ==
  \/ ui \in {"own", "recover", "ready", "acquire"} \/ guest = "acquire"
  \/ (ui = "read" \/ guest = "read") /\ content[acquired] = frames

\* A frame that was not offered, or a window that nobody may paint to though it is
\* connected, waits for a paint that was requested, will be, or is under way.
Unannounced == guest \in {"publish", "rotate", "notify"}
Coming ==
  Linked /\ ui # "disconnect" /\ (mode = "none" \/ (~Unannounced /\ offered < frames))
    => requested \/ again \/ Painting

(* A connection that is remade for the first time is followed by a paint.   *)
LEMMA Remade ==
  ASSUME Reconnect
  PROVE  /\ ui = "connect" /\ ui' = "settle"
         /\ again' => connection' = "paintable"
         /\ connection' = "paintable" => again' \/ connection # "retry"
         /\ connection' \in {"paintable", "retry", "unusable"}
         /\ connection' = "paintable" => connection # "unusable"
         /\ UNCHANGED <<mailbox, consumer, guest, mode, surface, drawers, drawUi,
                        requested, invalid, screen>>
<1>1. CASE connection' = "paintable"
  <2>1. again' = TRUE \/ again' = (connection = "retry")
    BY <1>1, Zenon DEF Reconnect
  <2>2. connection # "unusable"
    BY <1>1 DEF Reconnect, Connect
  <2>. QED  BY <1>1, <2>1, <2>2, Zenon DEF Reconnect, UiGoto
<1>2. CASE connection' # "paintable"
  <2>1. again' = FALSE
    BY <1>2, Zenon DEF Reconnect
  <2>2. connection' \in {"retry", "unusable"}
    BY <1>2 DEF Reconnect, Connect
  <2>. QED  BY <1>2, <2>1, <2>2, Zenon DEF Reconnect, UiGoto
<1>. QED  BY <1>1, <1>2

LEMMA StagesStep ==
  ASSUME Safe, Stages, [Next]_vars
  PROVE  Stages'
<1>. USE DEF Safe, Owners, Busy, GuestPaints, Stages, mailbox, link, paint
<1>1. CASE UNCHANGED vars
  BY <1>1 DEF vars
<1>2. CASE Refresh
  BY <1>2 DEF Refresh, Values, Mailbox
<1>3. CASE Written
  BY <1>3 DEF Written, Values, Mailbox
<1>4. CASE Publish \/ Rotate \/ Notify
  BY <1>4 DEF Publish, Rotate, Notify, Mailbox, RequestPaint
<1>5. CASE GuestConsume \/ Capture \/ UiConsume \/ CaptureEnd
  BY <1>5 DEF GuestConsume, Capture, UiConsume, CaptureEnd, Consume, UiGoto
<1>6. CASE GuestPresent
  BY <1>6 DEF GuestPresent, Present
<1>7. CASE UiPresent
  BY <1>7 DEF UiPresent, Present
<1>8. CASE OnPaint \/ LastDrawerLeaves
  BY <1>8 DEF OnPaint, LastDrawerLeaves
<1>9. CASE TakeOwnership \/ Ready \/ Unpaintable \/ Tail \/ Settle
  BY <1>9 DEF TakeOwnership, Ready, Unpaintable, Tail, Settle, UiGoto, SetMode, DesiredMode
<1>10. CASE Recover \/ Reconnect
  <2>1. CASE Recover
    BY <2>1 DEF Recover, Connect
  <2>2. CASE Reconnect
    BY <2>2, Remade
  <2>. QED  BY <1>10, <2>1, <2>2
<1>11. CASE Ask \/ Resize \/ Attach
  BY <1>11 DEF Ask, Resize, Attach, Change, UiGoto, SetMode
<1>12. CASE Detach \/ Disconnect \/ ToggleDrawers
  BY <1>12 DEF Detach, Disconnect, ToggleDrawers, Change, UiGoto, SetMode, DesiredMode
<1>. QED
  BY <1>1, <1>2, <1>3, <1>4, <1>5, <1>6, <1>7, <1>8, <1>9, <1>10, <1>11, <1>12
  DEF Next, GuestStep, UiStep

LEMMA RequestsStep ==
  ASSUME Safe, Flags, Stages, Requests, Exposes, [Next]_vars
  PROVE  Requests'
<1>. USE DEF Safe, Owners, Busy, GuestPaints, Requests, Changing, mailbox, link, paint
<1>1. CASE UNCHANGED vars
  BY <1>1 DEF vars
<1>2. CASE Refresh \/ Written \/ Publish \/ Rotate \/ LastDrawerLeaves
  <2>1. UNCHANGED <<surface, requested, invalid, mode, connection, ui>>
    BY <1>2 DEF Refresh, Written, Publish, Rotate, LastDrawerLeaves
  <2>. QED  BY <2>1
<1>3. CASE Notify
  BY <1>3 DEF Notify, RequestPaint
<1>4. CASE GuestConsume \/ Capture \/ UiConsume \/ CaptureEnd
  BY <1>4 DEF GuestConsume, Capture, UiConsume, CaptureEnd, Consume, UiGoto, Stages
<1>5. CASE GuestPresent
  BY <1>5 DEF GuestPresent, Present, RequestPaint
<1>6. CASE UiPresent
  BY <1>6 DEF UiPresent, Present, Stages
<1>7. CASE OnPaint
  BY <1>7 DEF OnPaint
<1>8. CASE TakeOwnership \/ Ready \/ Unpaintable \/ Tail \/ Settle
  BY <1>8 DEF TakeOwnership, Ready, Unpaintable, Tail, Settle, UiGoto, SetMode, DesiredMode,
              Stages
<1>9. CASE Recover \/ Reconnect
  <2>1. CASE Recover
    BY <2>1 DEF Recover, Connect
  <2>2. CASE Reconnect
    BY <2>2, Remade
  <2>. QED  BY <1>9, <2>1, <2>2
<1>10. CASE Ask
  BY <1>10 DEF Ask, UiGoto, RequestPaint
<1>11. CASE Resize \/ Attach
  <2>1. CASE Resize
    BY <2>1 DEF Resize, Change
  <2>2. CASE Attach
    <3>1. invalid' /\ ui' = "connect"
      BY <2>2, Zenon DEF Attach, Change
    <3>. QED  BY <3>1
  <2>. QED  BY <1>11, <2>1, <2>2
<1>12. CASE Detach \/ Disconnect \/ ToggleDrawers
  BY <1>12 DEF Detach, Disconnect, ToggleDrawers, Change, UiGoto, SetMode, DesiredMode
<1>. QED
  BY <1>1, <1>2, <1>3, <1>4, <1>5, <1>6, <1>7, <1>8, <1>9, <1>10, <1>11, <1>12
  DEF Next, GuestStep, UiStep

LEMMA ComingStep ==
  ASSUME Safe, Flags, Stages, Requests, Coming, [Next]_vars
  PROVE  Coming'
<1>. USE DEF Safe, Owners, Busy, GuestPaints, Coming, Painting, Linked, Unannounced,
             mailbox, link, paint, screen
<1>1. CASE UNCHANGED vars
  BY <1>1 DEF vars
<1>2. CASE Refresh \/ Publish \/ Rotate
  BY <1>2 DEF Refresh, Publish, Rotate, Values, Mailbox, Stages
<1>3. CASE Written
  BY <1>3 DEF Written, Values, Mailbox, Stages
<1>4. CASE Notify
  <2>1. UNCHANGED <<mailbox, mode, link, ui, again, offered>> /\ guest = "notify"
    BY <1>4 DEF Notify
  <2>2. CASE mode = "ui"
    BY <1>4, <2>2 DEF Notify, RequestPaint
  <2>3. CASE mode = "guest"
    <3>1. requested' = requested
      BY <1>4, <2>3 DEF Notify
    <3>2. connection = "paintable" => guest' = "acquire"
      BY <1>4, <2>3 DEF Notify
    <3>3. connection # "paintable" => requested \/ ui = "own"
      BY <2>3 DEF Requests, Changing
    <3>. QED  BY <2>1, <2>3, <3>1, <3>2, <3>3
  <2>4. CASE mode = "none"
    <3>1. requested' = requested
      BY <1>4, <2>4 DEF Notify
    <3>2. Painting => ui \in {"own", "recover", "ready", "acquire"}
      BY <2>1, <2>4 DEF Stages
    <3>. QED  BY <2>1, <2>4, <3>1, <3>2
  <2>. QED  BY <2>2, <2>3, <2>4 DEF Values, Modes
<1>5. CASE GuestConsume \/ Capture \/ UiConsume \/ CaptureEnd
  BY <1>5 DEF GuestConsume, Capture, UiConsume, CaptureEnd, Consume, UiGoto, Stages
<1>6. CASE GuestPresent
  <2>1. /\ guest = "read" /\ guest' = "idle" /\ ui' = ui
        /\ UNCHANGED <<mailbox, mode, surface, again>>
    BY <1>6 DEF GuestPresent
  <2>2. CASE connection' = "outdated"
    BY <1>6, <2>2 DEF GuestPresent, RequestPaint
  <2>3. CASE connection' # "outdated"
    <3>1. connection' = connection /\ offered' = content[acquired] /\ requested' = requested
      BY <1>6, <2>3 DEF GuestPresent, Present
    <3>2. mode = "guest" /\ ui # "read"
      BY <2>1
    <3>3. content[acquired] = frames => ~(offered' < frames')
      BY <2>1, <3>1 DEF Values
    <3>4. offered' < frames' => offered < frames
      BY <2>1, <3>1, BoundAssumption DEF Values, Mailbox
    <3>. QED  BY <2>1, <3>1, <3>2, <3>3, <3>4
  <2>. QED  BY <2>2, <2>3
<1>7. CASE UiPresent
  <2>1. /\ ui = "read" /\ ui' # "read" /\ guest' = guest /\ mode = "ui"
        /\ UNCHANGED <<mailbox, mode, surface, requested>>
    BY <1>7 DEF UiPresent, Stages
  <2>2. CASE connection' = "outdated"
    <3>1. again' = TRUE
      BY <1>7, <2>2, Zenon DEF UiPresent
    <3>. QED  BY <3>1
  <2>3. CASE connection' # "outdated"
    <3>1. connection' = connection /\ offered' = content[acquired]
      BY <1>7, <2>3 DEF UiPresent, Present
    <3>2. ~again /\ guest \notin {"acquire", "read"}
      BY <2>1 DEF Stages
    <3>3. content[acquired] = frames => ~(offered' < frames')
      BY <2>1, <3>1 DEF Values
    <3>4. offered' < frames' => offered < frames
      BY <2>1, <3>1, BoundAssumption DEF Values, Mailbox
    <3>. QED  BY <2>1, <3>1, <3>2, <3>3, <3>4
  <2>. QED  BY <2>2, <2>3
<1>8. CASE OnPaint \/ LastDrawerLeaves
  BY <1>8 DEF OnPaint, LastDrawerLeaves, Stages
<1>9. CASE TakeOwnership \/ Ready \/ Unpaintable \/ Tail \/ Settle
  BY <1>9 DEF TakeOwnership, Ready, Unpaintable, Tail, Settle, UiGoto, SetMode, DesiredMode,
              Stages
<1>10. CASE Recover \/ Reconnect
  <2>1. CASE Recover
    BY <2>1 DEF Recover, Connect
  <2>2. CASE Reconnect
    <3>1. ~again
      BY <2>2, Remade DEF Stages
    <3>. QED  BY <2>2, <3>1, Remade DEF Values, Connections
  <2>. QED  BY <1>10, <2>1, <2>2
<1>11. CASE Ask \/ Resize \/ Attach
  BY <1>11 DEF Ask, Resize, Attach, Change, UiGoto, SetMode, RequestPaint, Stages
<1>12. CASE Detach \/ Disconnect \/ ToggleDrawers
  BY <1>12 DEF Detach, Disconnect, ToggleDrawers, Change, UiGoto, SetMode, DesiredMode
<1>. QED
  BY <1>1, <1>2, <1>3, <1>4, <1>5, <1>6, <1>7, <1>8, <1>9, <1>10, <1>11, <1>12
  DEF Next, GuestStep, UiStep

(* No frame is forgotten, however many frames, resizes, lost surfaces and  *)
(* outdated connections there are, if the window system asks a window with *)
(* a new surface to paint (RefreshGuestOutput and PaintFromUIThread).      *)
THEOREM Delivered == Exposes => (Spec => []NoFrameForgotten)
<1>. SUFFICES ASSUME Exposes PROVE Spec => []NoFrameForgotten
  OBVIOUS
<1>1. Init => Stages /\ Requests /\ Coming
  BY DEF Init, Stages, Requests, Coming, Linked, Changing
<1>2. /\ Safe /\ Flags /\ Stages /\ Requests /\ Coming /\ [Next]_vars
      => Stages' /\ Requests' /\ Coming'
  BY StagesStep, RequestsStep, ComingStep
<1>3. Safe /\ Stages /\ Requests /\ Coming => NoFrameForgotten
  BY DEF Stages, Requests, Coming, Linked, Painting, Unannounced, NoFrameForgotten
<1>. QED  BY AlwaysSafe, <1>1, <1>2, <1>3, PTL DEF Spec
==============================================================================
