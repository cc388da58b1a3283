-------------------------------- MODULE Display --------------------------------
(***************************************************************************)
(* The panel and its two owners: port/ltdc/ltdc_display.c (double buffer,  *)
(* tear-free flip, ownership, scanout), port/guix/guix_display.c (buffer   *)
(* toggle and the copy-forward of the camera rectangle),                   *)
(* port/guix/guix_glue.c (start, stop), ui/guix_camera_ui.c (preview,      *)
(* settings, resolution) and the `lcd` and `gui` commands.                 *)
(*                                                                         *)
(* A step is a section under ltdc_lock, or what a thread does between two. *)
(* A buffer is what it shows outside and inside the camera rectangle,      *)
(* relative to what it should show: "latest", "old", or other pixels. A    *)
(* geometry is 0 (160x120) or 1 (320x240). External: GUIX (events in       *)
(* order, then a refresh of what is dirty under its own mutex, none while  *)
(* the root is hidden) and the camera registry (CameraBase).               *)
(***************************************************************************)
EXTENDS Integers, Sequences

CONSTANTS EvMax,     \* bound: GUIX events queued
          DpMaxOps   \* bound: commands, taps, and base starts and stops
ASSUME DpAssumption == EvMax \in Nat \ {0} /\ DpMaxOps \in Nat

Bufs == {0, 1}

VARIABLES
    guiOwned, scanOff, vbrFault, front,  \* ltdc_gui_owned, _disabled, _fault, _front
    canvas,                     \* the buffer gx_canvas_memory points at
    inited, guiActive, shown,   \* guix_inited, guix_active; the root is shown
    ui, rect,                   \* of each buffer: outside and inside the camera rectangle
    stale,                      \* cam_buf_stale
    camVisible, camActive,      \* cam_visible, cam_preview_active
    geo, viewGeo, curRes,       \* of the blits, of the stored frame, cur_res_idx
    redrawPending, stopReq,     \* cam_redraw_pending, stop_requested
    sink, base,                 \* "off", "idle", "attached"; the base's geometry, if it streams
    storing,                    \* the producer is in cam_sink_consume(), its frame stored
    inSettings,                 \* settings_active
    events, dirty, gx,          \* GUIX: its queue, what is dirty, where it is
    lcd, gui,                   \* the threads of an `lcd` and of a `gui` command
    torn,                       \* ghost: a copy-forward failed
    dpOps

ltdcVars == <<guiOwned, scanOff, vbrFault, front>>
bufVars == <<ui, rect, stale>>
camVars == <<camVisible, camActive, geo, viewGeo>>
uiVars == <<curRes, redrawPending, sink, base, storing, inSettings>>
glueVars == <<canvas, inited, guiActive, shown, stopReq>>
gxVars == <<events, dirty, gx>>
dpVars == <<ltdcVars, bufVars, camVars, uiVars, glueVars, gxVars, lcd, gui, torn, dpOps>>

DpInit ==
    /\ guiOwned = FALSE /\ scanOff = FALSE /\ vbrFault = FALSE /\ front = 0
    /\ canvas = 1 /\ inited = FALSE /\ guiActive = FALSE /\ shown = FALSE /\ stopReq = FALSE
    /\ ui = [b \in Bufs |-> "other"] /\ rect = [b \in Bufs |-> "other"]
    /\ stale = [b \in Bufs |-> FALSE]
    /\ camVisible = FALSE /\ camActive = FALSE /\ geo = 1 /\ viewGeo = 1 /\ curRes = 1
    /\ redrawPending = FALSE /\ sink = "off" /\ base = {} /\ storing = FALSE
    /\ inSettings = FALSE /\ events = <<>> /\ dirty = {} /\ gx = "idle"
    /\ lcd = "idle" /\ gui = "idle" /\ torn = FALSE /\ dpOps = 0

Op == dpOps < DpMaxOps /\ ~ vbrFault /\ dpOps' = dpOps + 1

Back == 1 - front
Aged(content) == [b \in Bufs |-> IF content[b] = "latest" THEN "old" ELSE content[b]]
MarkStale == [b \in Bufs |-> TRUE]
PreviewRunning == sink = "attached"
CanPost == guiActive /\ Len(events) < EvMax

\* ltdc_flip_locked(): the swap commits, or VBR never clears and the display
\* is down for good.
CanFlip == ~ vbrFault /\ ~ scanOff
Flip ==
    IF ~ CanFlip THEN UNCHANGED <<front, vbrFault>>
    ELSE \/ front' = Back /\ UNCHANGED vbrFault
         \/ vbrFault' = TRUE /\ UNCHANGED front

------------------------------------------------------------------------------
(* The `lcd` commands. *)

\* lcd_can_draw(), before the lock.
LcdDraw ==
    /\ Op
    /\ lcd = "idle" /\ ~ vbrFault /\ ~ scanOff /\ ~ guiOwned
    /\ lcd' = "draw"
    /\ UNCHANGED <<ltdcVars, bufVars, camVars, uiVars, glueVars, gxVars, gui, torn>>

\* The draw helpers and ltdc_flip(), in one section: no-ops under GUIX.
\* Mutant: the check before the lock is trusted.
LcdMayDrawChecked == ~ vbrFault
LcdMayDraw == ~ vbrFault /\ ~ guiOwned
LcdPresent ==
    /\ lcd = "draw" /\ lcd' = "idle"
    /\ IF LcdMayDraw
       THEN /\ ui' = [ui EXCEPT ![Back] = "other"] /\ rect' = [rect EXCEPT ![Back] = "other"]
            /\ Flip
       ELSE UNCHANGED <<ui, rect, front, vbrFault>>
    /\ UNCHANGED <<guiOwned, scanOff, stale, camVars, uiVars, glueVars, gxVars, gui, torn, dpOps>>

\* ltdc_set_scanout(), `lcd on` and `lcd off`.
SetScanout ==
    /\ Op
    /\ lcd = "idle" /\ ~ vbrFault /\ ~ guiOwned
    /\ scanOff' \in BOOLEAN
    /\ UNCHANGED <<guiOwned, vbrFault, front, bufVars, camVars, uiVars, glueVars, gxVars, lcd, gui, torn>>

------------------------------------------------------------------------------
(* `gui start`: guix_start(), camera_ui_start(). *)

GuiStart ==
    /\ Op
    /\ gui = "idle" /\ ~ vbrFault /\ ~ scanOff
    /\ gui' = IF guiActive THEN "autostart" ELSE "take"
    /\ UNCHANGED <<ltdcVars, bufVars, camVars, uiVars, glueVars, gxVars, lcd, torn>>

\* ltdc_gui_take(): refused after all, if the display went down or off.
GuiTake ==
    /\ gui = "take"
    /\ IF vbrFault \/ scanOff THEN gui' = "idle" /\ UNCHANGED guiOwned
                              ELSE gui' = "canvas" /\ guiOwned' = TRUE
    /\ UNCHANGED <<scanOff, vbrFault, front, bufVars, camVars, uiVars, glueVars, gxVars, lcd, torn, dpOps>>

\* The canvas goes on the back buffer; what guix_first_start() creates may fail.
CanvasOnStart == Back
GuiCanvas ==
    /\ gui = "canvas"
    /\ \/ /\ canvas' = CanvasOnStart /\ inited' = TRUE
          /\ shown' = TRUE /\ dirty' = {"cam", "rest"} /\ ui' = Aged(ui)
          /\ gui' = "up" /\ UNCHANGED guiOwned
       \/ /\ ~ inited /\ gui' = "idle" /\ guiOwned' = vbrFault
          /\ UNCHANGED <<canvas, inited, shown, dirty, ui>>
    /\ UNCHANGED <<scanOff, vbrFault, front, rect, stale, camVars, uiVars, guiActive, stopReq,
                   events, gx, lcd, torn, dpOps>>

GuiUp ==
    /\ gui = "up" /\ gui' = "autostart" /\ guiActive' = TRUE
    /\ UNCHANGED <<ltdcVars, bufVars, camVars, uiVars, canvas, inited, shown, stopReq, gxVars, lcd, torn, dpOps>>

GuiAutostart ==
    /\ gui = "autostart" /\ CanPost /\ gui' = "idle"
    /\ stopReq' = FALSE /\ events' = Append(events, "AUTOSTART")
    /\ UNCHANGED <<ltdcVars, bufVars, camVars, uiVars, canvas, inited, guiActive, shown, dirty, gx, lcd, torn, dpOps>>

------------------------------------------------------------------------------
(* `gui stop`: camera_ui_stop(), preview_teardown(), guix_stop(). *)

GuiStop ==
    /\ Op
    /\ gui = "idle" /\ gui' = "unsubscribe" /\ stopReq' = TRUE
    /\ UNCHANGED <<ltdcVars, bufVars, camVars, uiVars, canvas, inited, guiActive, shown, gxVars, lcd, torn>>

GuiUnsubscribe ==
    /\ gui = "unsubscribe" /\ gui' = "drain" /\ sink' = "off"
    /\ UNCHANGED <<ltdcVars, bufVars, camVars, curRes, redrawPending, base, storing, inSettings,
                   glueVars, gxVars, lcd, torn, dpOps>>

\* The drain of cam_sink_inflight is bounded: the teardown goes on without it.
GuiTeardown ==
    /\ gui = "drain" /\ gui' = IF guiActive THEN "hide" ELSE "idle"
    /\ camVisible' = FALSE /\ camActive' = FALSE /\ redrawPending' = FALSE
    /\ UNCHANGED <<ltdcVars, bufVars, geo, viewGeo, curRes, sink, base, storing, inSettings,
                   glueVars, gxVars, lcd, torn, dpOps>>

GuiHide ==
    /\ gui = "hide" /\ gx \notin {"cam", "toggle"} /\ gui' = "blank" /\ shown' = FALSE
    /\ UNCHANGED <<ltdcVars, bufVars, camVars, uiVars, canvas, inited, guiActive, stopReq, gxVars, lcd, torn, dpOps>>

\* guix_display_fill_back(), ltdc_gui_flip() and the canvas that follows.
GuiBlank ==
    /\ gui = "blank" /\ gui' = "release"
    /\ ui' = [ui EXCEPT ![Back] = "other"] /\ rect' = [rect EXCEPT ![Back] = "other"]
    /\ Flip /\ canvas' = 1 - front'
    /\ UNCHANGED <<guiOwned, scanOff, stale, camVars, uiVars, inited, guiActive, shown, stopReq,
                   gxVars, lcd, torn, dpOps>>

GuiRelease ==
    /\ gui = "release" /\ gui' = "idle"
    /\ guiOwned' = (guiOwned /\ vbrFault) /\ guiActive' = FALSE
    /\ UNCHANGED <<scanOff, vbrFault, front, bufVars, camVars, uiVars, canvas, inited, shown, stopReq,
                   gxVars, lcd, torn, dpOps>>

------------------------------------------------------------------------------
(* The base capture and the producer. *)

\* cam_sink_open(): guix_display_cam_preview_begin(), and a GEOM event if the
\* geometry is not the one GUIX shows.
Attach(g) ==
    /\ sink' = "attached" /\ geo' = g /\ camActive' = TRUE /\ stale' = MarkStale
    /\ events' = IF g # curRes /\ CanPost THEN Append(events, "GEOM") ELSE events

BaseStarts ==
    /\ Op
    /\ base = {}
    /\ \E g \in Bufs :
          /\ base' = {g}
          /\ IF sink = "idle" THEN Attach(g) ELSE UNCHANGED <<sink, geo, camActive, stale, events>>
    /\ UNCHANGED <<ltdcVars, ui, rect, camVisible, viewGeo, curRes, redrawPending, storing, inSettings,
                   glueVars, dirty, gx, lcd, gui, torn>>

\* cam_sink_close(): the last frame freezes.
BaseStops ==
    /\ Op
    /\ base # {} /\ base' = {} /\ sink' = IF sink = "attached" THEN "idle" ELSE sink
    /\ UNCHANGED <<ltdcVars, bufVars, camVars, curRes, redrawPending, storing, inSettings,
                   glueVars, gxVars, lcd, gui, torn>>

\* cam_sink_consume(): guix_display_cam_view_store() unless a redraw is pending;
\* its copy may fail.
SinkStores ==
    /\ sink = "attached" /\ ~ storing /\ ~ redrawPending /\ camActive
    /\ storing' = TRUE
    /\ rect' = Aged(rect) /\ stale' = MarkStale /\ viewGeo' = geo
    /\ UNCHANGED <<ltdcVars, ui, camVisible, camActive, geo, curRes, redrawPending, sink, base, inSettings,
                   glueVars, gxVars, lcd, gui, torn, dpOps>>

\* The event is posted and the flag stored in one step: the producer that does it
\* outranks the GUIX thread, which cannot take the event in between.
SinkPosts ==
    /\ storing /\ storing' = FALSE
    /\ IF CanPost THEN redrawPending' = TRUE /\ events' = Append(events, "FRAME")
                  ELSE UNCHANGED <<redrawPending, events>>
    /\ UNCHANGED <<ltdcVars, bufVars, camVars, curRes, sink, base, inSettings, glueVars, dirty, gx,
                   lcd, gui, torn, dpOps>>

------------------------------------------------------------------------------
(* The GUIX thread: an event of the root ... *)

Event(e) == gx = "idle" /\ events # <<>> /\ Head(events) = e /\ events' = Tail(events)
SetVisible(on) == camVisible' = on /\ stale' = IF on THEN MarkStale ELSE stale
Redraw(what) ==
    /\ dirty' = dirty \cup what
    /\ ui' = IF "rest" \in what THEN Aged(ui) ELSE ui

\* CAMERA_FRAME, with the boxes of overlay_draw_boxes() drawn into the view.
\* Mutant: a frame that arrives under the settings screen is dropped.
FrameDoneIfShown(settings) == ~ settings
FrameDone(settings) == TRUE
GxFrame ==
    /\ Event("FRAME")
    /\ redrawPending' = IF FrameDone(inSettings) THEN FALSE ELSE redrawPending
    /\ IF inSettings THEN UNCHANGED <<bufVars, dirty>>
       ELSE /\ Redraw({"cam"})
            /\ \/ rect' = Aged(rect) /\ stale' = MarkStale
               \/ UNCHANGED <<rect, stale>>
    /\ UNCHANGED <<ltdcVars, camVars, curRes, sink, base, storing, inSettings, glueVars, gx, lcd, gui, torn, dpOps>>

\* CAMERA_GEOM
GxGeom ==
    /\ Event("GEOM")
    /\ IF geo # curRes
       THEN curRes' = geo /\ SetVisible(~ inSettings) /\ Redraw({"cam", "rest"})
       ELSE UNCHANGED <<curRes, camVisible, stale, dirty, ui>>
    /\ UNCHANGED <<ltdcVars, rect, camActive, geo, viewGeo, redrawPending, sink, base, storing, inSettings,
                   glueVars, gx, lcd, gui, torn, dpOps>>

\* CAMERA_AUTOSTART: enter_preview(), and the check of preview_subscribe() ...
GxAutostart ==
    /\ Event("AUTOSTART")
    /\ inSettings' = FALSE /\ Redraw({"cam", "rest"})
    /\ IF stopReq \/ ~ guiActive
       THEN SetVisible(PreviewRunning) /\ UNCHANGED <<gx, redrawPending>>
       ELSE SetVisible(TRUE) /\ redrawPending' = FALSE /\ gx' = "subscribe"
    /\ UNCHANGED <<ltdcVars, rect, camActive, geo, viewGeo, curRes, sink, base, storing,
                   glueVars, lcd, gui, torn, dpOps>>

\* ... and its camera_subscribe(), which may fail. At boot the base is started
\* as well (BaseStarts).
GxSubscribe ==
    /\ gx = "subscribe" /\ gx' = "idle"
    /\ \/ /\ IF base # {} /\ sink # "attached" THEN \E g \in base : Attach(g)
             ELSE /\ sink' = IF sink = "off" THEN "idle" ELSE sink
                  /\ UNCHANGED <<geo, camActive, stale, events>>
          /\ UNCHANGED camVisible
       \/ camVisible' = FALSE /\ UNCHANGED <<sink, geo, camActive, stale, events>>
    /\ UNCHANGED <<ltdcVars, ui, rect, viewGeo, curRes, redrawPending, base, storing, inSettings,
                   glueVars, dirty, lcd, gui, torn, dpOps>>

\* A tap: enter_settings(), Back (enter_preview()), or a control of the panel.
GxTap ==
    /\ Op
    /\ gx = "idle" /\ shown /\ guiActive
    /\ \/ ~ inSettings /\ inSettings' = TRUE /\ SetVisible(FALSE)
       \/ inSettings /\ inSettings' = FALSE /\ SetVisible(PreviewRunning)
       \/ inSettings /\ UNCHANGED <<inSettings, camVisible, stale>>
    /\ Redraw({"cam", "rest"})
    /\ UNCHANGED <<ltdcVars, rect, camActive, geo, viewGeo, curRes, redrawPending, sink, base, storing,
                   glueVars, events, gx, lcd, gui, torn>>

\* cycle_resolution(), alone on the base: stop, set the format, show it, restart.
GxResolution ==
    /\ Op
    /\ gx = "idle" /\ shown /\ guiActive /\ inSettings
    /\ LET next == 1 - curRes IN
       /\ curRes' = next
       /\ \/ base = {} /\ UNCHANGED <<base, sink, geo, camActive, stale>>
          \/ /\ base # {} /\ base' = {next}
             /\ IF sink = "off" THEN UNCHANGED <<sink, geo, camActive, stale>>
                ELSE sink' = "attached" /\ geo' = next /\ camActive' = TRUE /\ stale' = MarkStale
    /\ Redraw({"cam", "rest"})
    /\ UNCHANGED <<ltdcVars, rect, camVisible, viewGeo, redrawPending, storing, inSettings, glueVars,
                   events, gx, lcd, gui, torn>>

------------------------------------------------------------------------------
(* ... and the refresh of what is dirty, into the canvas. *)

Paint(area, b, what) == [area EXCEPT ![b] = what]

GxDraw ==
    /\ gx = "idle" /\ shown /\ dirty # {}
    /\ gx' = IF inSettings THEN "toggle" ELSE "cam"
    /\ IF "rest" \in dirty THEN ui' = Paint(ui, canvas, "latest") /\ rect' = Paint(rect, canvas, "other")
                           ELSE UNCHANGED <<ui, rect>>
    /\ UNCHANGED <<ltdcVars, stale, camVars, uiVars, glueVars, events, dirty, lcd, gui, torn, dpOps>>

\* guix_pixelmap_draw() of the camera icon: whole or clipped, done or failed.
Repaints(ok) == ok /\ camActive /\ curRes >= geo
GxDrawCamera ==
    /\ gx = "cam" /\ gx' = "toggle"
    /\ \E ok \in BOOLEAN :
          /\ rect' = Paint(rect, canvas, IF curRes = viewGeo /\ (ok \/ rect[canvas] = "latest")
                                        THEN "latest" ELSE "other")
          /\ stale' = IF Repaints(ok) THEN [stale EXCEPT ![Back] = FALSE] ELSE stale
    /\ UNCHANGED <<ltdcVars, ui, camVars, uiVars, glueVars, events, dirty, lcd, gui, torn, dpOps>>

\* guix_buffer_toggle(): cam_rect_refresh() of a stale rectangle, the flip, and
\* the copy of the dirty region forward, unless it is the icon's alone. The
\* first copy may fail and leave the flag; the second is not checked.
RectInCam == camVisible /\ dirty = {"cam"} /\ curRes <= geo
GxToggle ==
    /\ gx = "toggle" /\ gx' = "idle" /\ dirty' = {}
    /\ IF canvas # Back \/ vbrFault THEN UNCHANGED <<front, vbrFault, canvas, bufVars, torn>>
       ELSE \E ok \in BOOLEAN :
            LET due == camVisible /\ stale[canvas] /\ camActive
                here == IF due THEN IF ok /\ viewGeo = geo THEN "latest" ELSE "other"
                        ELSE rect[canvas]
            IN /\ stale' = [stale EXCEPT ![canvas] = @ /\ ~ (due /\ ok)]
               /\ Flip /\ canvas' = 1 - front'
               /\ IF vbrFault' \/ RectInCam
                  THEN rect' = [rect EXCEPT ![canvas] = here] /\ UNCHANGED <<ui, torn>>
                  ELSE /\ rect' = [rect EXCEPT ![canvas] = here,
                                      ![front] = IF ok THEN here ELSE "other"]
                       /\ ui' = IF ok /\ "rest" \in dirty THEN Paint(ui, front, ui[canvas]) ELSE ui
                       /\ torn' = (torn \/ ~ ok)
    /\ UNCHANGED <<guiOwned, scanOff, camVars, uiVars, inited, guiActive, shown, stopReq, events, lcd, gui, dpOps>>

------------------------------------------------------------------------------
GuixThread == GxFrame \/ GxGeom \/ GxAutostart \/ GxSubscribe \/ GxDraw \/ GxDrawCamera \/ GxToggle
LcdThread == LcdDraw \/ LcdPresent \/ SetScanout
GuiCommand == GuiTake \/ GuiCanvas \/ GuiUp \/ GuiAutostart \/ GuiUnsubscribe \/ GuiTeardown
              \/ GuiHide \/ GuiBlank \/ GuiRelease
Camera == BaseStarts \/ BaseStops \/ SinkStores \/ SinkPosts
DpNext == GuixThread \/ LcdThread \/ GuiStart \/ GuiStop \/ GuiCommand \/ Camera \/ GxTap \/ GxResolution
DpSpec == DpInit /\ [][DpNext]_dpVars /\ WF_dpVars(GuixThread)

------------------------------------------------------------------------------
DpTypeOK ==
    /\ {guiOwned, scanOff, vbrFault, inited, guiActive, shown, camVisible, camActive, redrawPending,
        stopReq, storing, inSettings, torn} \subseteq BOOLEAN
    /\ {front, canvas, geo, viewGeo, curRes} \subseteq Bufs /\ base \subseteq Bufs
    /\ ui \in [Bufs -> {"latest", "old", "other"}] /\ rect \in [Bufs -> {"latest", "old", "other"}]
    /\ stale \in [Bufs -> BOOLEAN] /\ sink \in {"off", "idle", "attached"}
    /\ dirty \subseteq {"cam", "rest"} /\ gx \in {"idle", "subscribe", "cam", "toggle"}

\* GUIX draws only into a buffer that is not on the panel, of a display it owns
\* and that scans out; no `lcd` command disturbs it, whatever it checked
\* before; once drawn, both buffers agree outside the camera rectangle.
OwnedByGuix ==
    /\ gx \in {"cam", "toggle"} => guiOwned /\ (canvas = Back \/ vbrFault)
    /\ guiOwned => ~ scanOff \/ vbrFault
    /\ shown /\ gx = "idle" /\ dirty = {} /\ ~ torn /\ ~ vbrFault =>
          \A b \in Bufs : ui[b] = "latest"

\* A buffer not marked stale shows the latest stored frame, once GUIX has
\* followed the base's geometry.
RectFresh ==
    camVisible /\ shown /\ gui = "idle" /\ events \in Seq({"FRAME"}) /\ curRes = geo /\ viewGeo = geo /\ ~ vbrFault =>
        \A b \in Bufs : ~ stale[b] /\ ~ (gx = "cam" /\ b = canvas) => rect[b] = "latest"

DisplaySound == DpTypeOK /\ OwnedByGuix /\ RectFresh

\* The preview never freezes on a redraw that nobody will do.
PreviewFlows == redrawPending ~> ~ redrawPending

==============================================================================
