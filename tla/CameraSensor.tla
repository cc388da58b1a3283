----------------------------- MODULE CameraSensor -----------------------------
(***************************************************************************)
(* port/camera/camera.c, the part that programs the OV5640: power, lazy    *)
(* configuration, live/colorbar source, quality settings and exposure      *)
(* timing, mode switch, the 15/30 fps knob, and the snapshot buffer.       *)
(*                                                                         *)
(* Every public call holds cam_lock from entry to return, so each is one   *)
(* action; what makes it hard is that every sensor write inside it may     *)
(* fail, with the register written or not, and the call must leave behind  *)
(* flags from which later calls still converge.  A helper is therefore the *)
(* set of its outcomes [st |-> state, ok |-> success].                     *)
(*                                                                         *)
(* The LTDC's scanout is switched by other threads without cam_lock.       *)
(* External: lib/ov5640 (LibInit, LibColorbar and the setters), modelled   *)
(* from the comments camera.c relies on.  Left out: the register values    *)
(* behind the settings (one level q stands for them), the settle sleeps.   *)
(***************************************************************************)
EXTENDS Integers

CONSTANTS Levels    \* the values of the quality settings

ASSUME LevelsAssumption == 0 \in Levels /\ Levels \subseteq Nat

VARIABLES
    c,          \* driver, sensor and frame buffer: what cam_lock protects
    scanout,    \* ltdc_scanout_active()
    stream,     \* cam_stream_active
    armed       \* the source the running or last capture asked for; -1 none

csVars == <<c, scanout, stream, armed>>

Resolutions == {"QVGA", "VGA"}
PixelFormats == {"RGB565", "JPEG"}
Unknown == -1       \* cam_colorbar: the sensor's source is not known

\* mode_fps[].vts and mode.streamable
BaseVts(res) == IF res = "QVGA" THEN 1000 ELSE 1088
Small(res) == res = "QVGA"
Streamable(res, fmt) == Small(res) \/ fmt = "JPEG"

\* CAM_AEC_MAX_DEFAULT and what OV5640_NightModeConfig(ENABLE) programs
DayCeiling == 984
NightCeiling == 2952
VtsMargin == 16

------------------------------------------------------------------------------
(* Outcomes.                                                               *)
Ok(d) == [st |-> d, ok |-> TRUE]
Failed(d) == [st |-> d, ok |-> FALSE]

\* A sensor access meant to lead from d to e.
Try(d, e) == {Ok(e), Failed(d), Failed(e)}

\* Go on after success; tidy up after a failure.
Then(outs, Step(_)) == UNION {IF o.ok THEN Step(o.st) ELSE {o} : o \in outs}
Else(outs, Tidy(_)) == {IF o.ok THEN o ELSE Failed(Tidy(o.st)) : o \in outs}

------------------------------------------------------------------------------
(* lib/ov5640 and the chip.                                                *)

\* The registers after OV5640_Init(R320x240, RGB565): q = -1 are the table's
\* own quality settings.
FreshSensor == [res |-> "QVGA", jpeg |-> FALSE, pclk |-> 24, bars |-> FALSE,
                q |-> -1, ceiling |-> DayCeiling, vts |-> 1088]

\* OV5640_Init() does nothing once IsInitialized is set (the sticky guard).
LibInit(d) ==
    IF d.libInit THEN {Ok(d)}
    ELSE {Ok([d EXCEPT !.sensor = FreshSensor, !.libInit = TRUE]),
          Failed(d), Failed([d EXCEPT !.sensor = FreshSensor])}

\* OV5640_ColorbarModeConfig() writes SDE_CTRL4 and so undoes the settings.
LibColorbar(d, bars) ==
    Try(d, [d EXCEPT !.sensor.bars = bars, !.sensor.q = -1])

\* OV5640_SetPixelFormat() sets the JPEG datapath bits and never clears them.
LibFormat(d, fmt) == Try(d, [d EXCEPT !.sensor.jpeg = @ \/ fmt = "JPEG"])
LibResolution(d, res) == Try(d, [d EXCEPT !.sensor.res = res])
LibPclk(d, hz) == Try(d, [d EXCEPT !.sensor.pclk = hz])

------------------------------------------------------------------------------
(* The *_locked() helpers.                                                 *)

\* Mutant: the driver's sticky guard survives.
ModeResetSticky(d) == [d EXCEPT !.res = "QVGA", !.fmt = "RGB565",
                                !.dcmiJpeg = FALSE, !.sensorPclk = 0]

\* mode_reset_default()
ModeReset(d) == [d EXCEPT !.res = "QVGA", !.fmt = "RGB565", !.dcmiJpeg = FALSE,
                          !.libInit = FALSE, !.sensorPclk = 0]

\* cam_frame holds no picture: its pixels are being, or were, overwritten.
NoFrame == [valid |-> FALSE, res |-> "QVGA", fmt |-> "RGB565", torn |-> TRUE]

\* The sensor and its frame are no longer to be relied on.
Forget(d) == [d EXCEPT !.configured = FALSE, !.frame = NoFrame,
                       !.colorbar = Unknown]

PowerOffLocked(d) == ModeReset([Forget(d) EXCEPT !.powered = FALSE])

\* camera_probe_locked(): power-cycle, then read the chip id.
ProbeLocked(d) ==
    LET reset == ModeReset(Forget(d)) IN
    {Ok([reset EXCEPT !.powered = TRUE]), Failed(PowerOffLocked(reset))}

ProbeIfOff(d) == IF d.powered THEN {Ok(d)} ELSE ProbeLocked(d)

\* settings_apply_all_locked(): night mode on raises the exposure ceiling,
\* night mode off leaves it where it is.
SettingsApplyAll(d) ==
    LET Night(e) == Try(e, [e EXCEPT !.sensor.ceiling =
                               IF d.want.night THEN NightCeiling ELSE @])
        Clean(e) == {Ok([e EXCEPT !.settingsDirty = FALSE])}
    IN Then(Then(Try(d, [d EXCEPT !.sensor.q = d.want.q]), Night), Clean)

\* Mutant: night mode's exposure ceiling stays.
RestoreCeilingNever(d) == {Ok(d)}

\* restore_aec_max_default_locked(), when night mode is off
RestoreCeiling(d) ==
    IF d.want.night THEN {Ok(d)}
    ELSE Try(d, [d EXCEPT !.sensor.ceiling = DayCeiling])

\* apply_vts_locked()
EffectiveVts(ceiling, res) ==
    IF ceiling + VtsMargin < BaseVts(res) THEN BaseVts(res)
                                          ELSE ceiling + VtsMargin
ApplyVts(d) ==
    Try(d, [d EXCEPT !.sensor.vts = EffectiveVts(d.sensor.ceiling, d.res)])

SettingsAndTimingApply(d) ==
    LET Clean(e) == {Ok([e EXCEPT !.timingDirty = FALSE])}
        Owed(e) == [e EXCEPT !.timingDirty = TRUE]
    IN Else(Then(Then(Then(SettingsApplyAll(d), RestoreCeiling), ApplyVts), Clean),
            Owed)

Live(d) == d.configured /\ d.colorbar = 0

ApplyIfLive(d) ==
    IF ~Live(d) THEN {Ok(d)}
    ELSE IF d.timingDirty THEN SettingsAndTimingApply(d) ELSE SettingsApplyAll(d)

ApplyWithTimingIfLive(d) ==
    IF Live(d) THEN SettingsAndTimingApply(d) ELSE {Ok(d)}

\* camera_configure_locked(): initialise once, switch the source, catch up.
InitOnce(d) ==
    LET Mark(e) == {Ok([e EXCEPT !.configured = TRUE, !.colorbar = Unknown,
                                 !.sensorPclk = 0])}
    IN IF d.configured THEN {Ok(d)} ELSE Then(LibInit(d), Mark)

SwitchSource(d, colorbar) ==
    LET Apply(e) == IF colorbar = 0 THEN SettingsAndTimingApply(e) ELSE {Ok(e)}
        Commit(e) == {Ok([e EXCEPT !.colorbar = colorbar])}
    IN IF d.colorbar = colorbar THEN {Ok(d)}
       ELSE Then(Then(LibColorbar(d, colorbar = 1), Apply), Commit)

CatchUp(d, colorbar) ==
    IF colorbar = 0 /\ (d.settingsDirty \/ d.timingDirty)
    THEN SettingsAndTimingApply(d) ELSE {Ok(d)}

Configure(d, colorbar) ==
    LET Switch(e) == SwitchSource(e, colorbar)
        Retry(e) == CatchUp(e, colorbar)
    IN Then(Then(InitOnce(d), Switch), Retry)

\* effective_ov_pclk(): 48 MHz needs the knob, a small mode and a dark panel.
EffectivePclk(d, res) ==
    IF d.fps = 30 /\ Small(res) /\ ~scanout THEN 48 ELSE 24

\* apply_effective_pclk_locked()
ApplyEffectivePclk(d) ==
    LET hz == EffectivePclk(d, d.res)
        Mark(e) == {Ok([e EXCEPT !.sensorPclk = hz])}
        Desynced(e) == [e EXCEPT !.sensorPclk = 0]
    IN IF d.sensorPclk = hz THEN {Ok(d)}
       ELSE Else(Then(LibPclk(d, hz), Mark), Desynced)

\* camera_set_format_locked() past its refusals.
SetFormatLocked(d, res, fmt) ==
    LET hz == EffectivePclk(d, res)
        Rearm(e) == {Ok(IF (fmt = "JPEG") = (e.fmt = "JPEG") THEN e
                        ELSE [e EXCEPT !.libInit = FALSE, !.configured = FALSE,
                                       !.dcmiJpeg = (fmt = "JPEG")])}
        Init1(e) ==
            LET Mark(g) == {Ok([g EXCEPT !.configured = TRUE, !.sensorPclk = 0])}
            IN IF e.configured THEN {Ok(e)} ELSE Then(LibInit(e), Mark)
        Res1(e) == LibResolution(e, res)
        Fmt1(e) == LibFormat(e, fmt)
        Pclk1(e) == LibPclk(e, hz)
        Commit(e) == SettingsAndTimingApply(
                        [e EXCEPT !.res = res, !.fmt = fmt, !.sensorPclk = hz])
        Stale(e) == {Ok([e EXCEPT !.frame = NoFrame, !.colorbar = Unknown])}
        Fallback(e) == ModeReset(Forget(e))
        Program(e) ==
            Else(Then(Then(Then(Then(Then(Then(Rearm(e), Init1), Res1), Fmt1),
                                Pclk1), Commit), Stale), Fallback)
    IN Then(ProbeIfOff(d), Program)

\* The frame just put into cam_frame has the mode's geometry and format.
NewFrame(d) == [d EXCEPT !.frame =
    [valid |-> TRUE, res |-> d.res, fmt |-> d.fmt, torn |-> FALSE]]

\* camera_capture_locked(): the DMA writes cam_frame whatever comes of it.
CaptureLocked(d, colorbar) ==
    LET Source(e) == Configure(e, colorbar)
        Shoot(e) == LET shot == [e EXCEPT !.frame = NoFrame]
                    IN {Ok(NewFrame(shot)), Failed(shot)}
    IN Then(Then(Then(ProbeIfOff(d), Source), ApplyEffectivePclk), Shoot)

\* stream_start_locked(), as far as the sensor goes; arming may fail.
StreamStartLocked(d, colorbar) ==
    LET Fits(e) == {IF Streamable(e.res, e.fmt) THEN Ok(e) ELSE Failed(e)}
        Source(e) == Configure(e, colorbar)
        Arm(e) == {Ok(e), Failed(e)}
    IN Then(Then(Then(Then(ProbeIfOff(d), Fits), Source), ApplyEffectivePclk), Arm)

------------------------------------------------------------------------------
CsInit ==
    /\ c = [powered |-> FALSE, configured |-> FALSE, libInit |-> FALSE,
            colorbar |-> Unknown, res |-> "QVGA", fmt |-> "RGB565",
            dcmiJpeg |-> FALSE, sensorPclk |-> 0, fps |-> 15,
            want |-> [q |-> 0, night |-> FALSE],
            settingsDirty |-> FALSE, timingDirty |-> FALSE,
            frame |-> NoFrame,
            sensor |-> FreshSensor]
    /\ scanout \in BOOLEAN
    /\ stream = FALSE
    /\ armed = Unknown

\* camera_probe() and camera_power_off() are refused while streaming.
Probe ==
    /\ ~stream
    /\ \E o \in ProbeLocked(c) : c' = o.st
    /\ armed' = Unknown
    /\ UNCHANGED <<scanout, stream>>

SensorOff ==
    /\ ~stream
    /\ c' = PowerOffLocked(c)
    /\ armed' = Unknown
    /\ UNCHANGED <<scanout, stream>>

Capture(colorbar) ==
    /\ ~stream
    /\ \E o \in CaptureLocked(c, colorbar) :
          /\ c' = o.st
          /\ armed' = IF o.ok THEN colorbar ELSE Unknown
    /\ UNCHANGED <<scanout, stream>>

SetMode(res, fmt) ==
    /\ ~stream
    /\ \E o \in SetFormatLocked(c, res, fmt) : c' = o.st
    /\ armed' = Unknown
    /\ UNCHANGED <<scanout, stream>>

\* camera_set_fps() rebuilds the current mode and takes the knob back if
\* that fails.
SetFps(fps) ==
    /\ ~stream
    /\ \E o \in SetFormatLocked([c EXCEPT !.fps = fps], c.res, c.fmt) :
          c' = IF o.ok THEN o.st ELSE [o.st EXCEPT !.fps = c.fps]
    /\ armed' = Unknown
    /\ UNCHANGED <<scanout, stream>>

\* The setters are allowed while streaming.
Set(outs) ==
    /\ \E o \in outs : /\ c' = o.st
                       /\ armed' = IF o.ok THEN armed ELSE Unknown
    /\ UNCHANGED <<scanout, stream>>

SetLevel(q) ==
    Set(ApplyIfLive([c EXCEPT !.want.q = q, !.settingsDirty = TRUE]))

SetNight(on) ==
    Set(ApplyWithTimingIfLive([c EXCEPT !.want.night = on,
                                        !.settingsDirty = TRUE]))

SetDefaults ==
    Set(ApplyWithTimingIfLive([c EXCEPT !.want = [q |-> 0, night |-> FALSE],
                                        !.settingsDirty = TRUE]))

\* camera_stream_start(), or the producer re-arming after an overrun
StreamStart(colorbar) ==
    /\ ~stream
    /\ \E o \in StreamStartLocked(c, colorbar) :
          /\ c' = o.st
          /\ stream' = o.ok
          /\ armed' = IF o.ok THEN colorbar ELSE Unknown
    /\ UNCHANGED scanout

\* The producer tears the base capture down.
StreamStop ==
    /\ stream
    /\ stream' = FALSE
    /\ armed' = Unknown
    /\ UNCHANGED <<c, scanout>>

\* camera_snapshot_latest() copies the newest ring frame into cam_frame.
SnapshotLatest ==
    /\ stream
    /\ c' = NewFrame(c)
    /\ UNCHANGED <<scanout, stream, armed>>

\* camera_frame_invalidate(), ahead of a memory test over the buffer
FrameInvalidate ==
    /\ c' = [c EXCEPT !.frame = NoFrame]
    /\ UNCHANGED <<scanout, stream, armed>>

\* lcd on / lcd off, or GUIX taking the panel
LcdSwitch ==
    /\ scanout' = ~scanout
    /\ armed' = Unknown
    /\ UNCHANGED <<c, stream>>

CsNext ==
    \/ Probe \/ SensorOff
    \/ \E colorbar \in {0, 1} : Capture(colorbar) \/ StreamStart(colorbar)
    \/ \E res \in Resolutions, fmt \in PixelFormats : SetMode(res, fmt)
    \/ \E fps \in {15, 30} : SetFps(fps)
    \/ \E q \in Levels : SetLevel(q)
    \/ \E on \in BOOLEAN : SetNight(on)
    \/ SetDefaults \/ StreamStop \/ SnapshotLatest \/ FrameInvalidate \/ LcdSwitch

CsSpec == CsInit /\ [][CsNext]_csVars

------------------------------------------------------------------------------
SensorState == [res : Resolutions, jpeg : BOOLEAN, pclk : {24, 48},
                bars : BOOLEAN, q : Levels \cup {-1},
                ceiling : {DayCeiling, NightCeiling},
                vts : {1000, 1088, NightCeiling + VtsMargin}]

CsTypeOK ==
    /\ c \in [powered : BOOLEAN, configured : BOOLEAN, libInit : BOOLEAN,
              colorbar : {Unknown, 0, 1}, res : Resolutions, fmt : PixelFormats,
              dcmiJpeg : BOOLEAN, sensorPclk : {0, 24, 48}, fps : {15, 30},
              want : [q : Levels, night : BOOLEAN],
              settingsDirty : BOOLEAN, timingDirty : BOOLEAN,
              frame : [valid : BOOLEAN, res : Resolutions, fmt : PixelFormats,
                       torn : BOOLEAN],
              sensor : SensorState]
    /\ scanout \in BOOLEAN
    /\ stream \in BOOLEAN
    /\ armed \in {Unknown, 0, 1}

(* Whenever a capture or a stream is armed, the chip and the DCMI really run *)
(* the mode the descriptor reports (a raster frame never comes off a         *)
(* datapath left in JPEG mode), at the pixel clock the display allows,       *)
(* whatever accesses failed in the calls before.                             *)
ModeIsProgrammed == armed # Unknown =>
    /\ c.powered /\ c.configured
    /\ c.sensor.res = c.res
    /\ c.sensor.jpeg = (c.fmt = "JPEG")
    /\ c.dcmiJpeg = (c.fmt = "JPEG")
    /\ c.sensor.pclk = EffectivePclk(c, c.res)

SettingsProgrammed ==
    /\ c.sensor.q = c.want.q
    /\ c.sensor.ceiling = IF c.want.night THEN NightCeiling ELSE DayCeiling
    /\ c.sensor.vts = EffectiveVts(c.sensor.ceiling, c.res)

(* A live picture is always taken with the settings the user last chose and  *)
(* with a frame length that fits the exposure ceiling, although setters only *)
(* cache them while the sensor is off or shows the test pattern, and an      *)
(* apply may have failed half-way.                                           *)
LiveIsCurrent == armed = 0 /\ ~c.sensor.bars => SettingsProgrammed

(* The two dirty flags miss nothing: on a live sensor with both clear, no    *)
(* later call would have anything to repair.                                 *)
DirtyFlagsSuffice ==
    Live(c) /\ ~c.sensor.bars /\ ~c.settingsDirty /\ ~c.timingDirty
        => SettingsProgrammed

(* cam_sensor_pclk_hz is the clock the chip runs at, or admits not knowing;  *)
(* a wrong value would let a 48 MHz sensor be armed under a lit panel.       *)
PclkKnown == c.sensorPclk # 0 => c.configured /\ c.sensor.pclk = c.sensorPclk

(* A frame that may be read has the geometry and format the mode descriptor  *)
(* gives its reader, and is the one its generation number was issued for.    *)
FrameMatchesMode ==
    c.frame.valid => /\ c.frame.res = c.res
                     /\ c.frame.fmt = c.fmt
                     /\ ~c.frame.torn

(* What is armed is what the descriptor says, and so is what may be read. *)
ArmedAsDescribed == ModeIsProgrammed /\ PclkKnown /\ FrameMatchesMode

(* Settings may be cached, applied half-way and caught up with, and a live   *)
(* picture always has the latest.                                            *)
SettingsCurrent == LiveIsCurrent /\ DirtyFlagsSuffice

=============================================================================
