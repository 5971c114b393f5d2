-------------------------------- MODULE Cdda --------------------------------
(***************************************************************************)
(* The CD-DA half of dc/gdrom/gdromv3.cpp: the play position, its repeats  *)
(* and the unit status, as operators from the audio record to the next.    *)
(* The packets of the guest and the sound unit, which asks for a sector    *)
(* every 588 samples (gdrom_get_cdda), move the same position.             *)
(*                                                                         *)
(* p holds the presets: state_fix (CDDA_STATE_FIX), pause_fix              *)
(* (CDDA_PAUSE_FIX) and cdda (CDDA MUSIC: the sound unit asks at all).     *)
(* A track is a row of sectors; HomeFAD stands for 150, where the first    *)
(* one is, LastFAD for the end libGDR_GetSessionInfo gives.                *)
(***************************************************************************)
EXTENDS Integers

CONSTANTS HomeFAD, LastFAD

ASSUME AddressAssumption == HomeFAD \in Nat /\ LastFAD \in Nat

Endless == 15   \* the repeat count that is never counted down

FAD == Nat
AudioStatus == {"NOINFO", "PLAYING", "PAUSED", "TERMINATED"}
UnitStatus == {"PAUSE", "STANDBY", "PLAY"}

\* cdda, and SecNumber.Status of a drive with a disc in it
Audio ==
  [playing : BOOLEAN, status : AudioStatus, repeats : 0 .. Endless,
   start : FAD, curr : FAD, end : FAD, unit : UnitStatus]

Silent ==
  [playing |-> FALSE, status |-> "NOINFO", repeats |-> 0,
   start |-> 0, curr |-> 0, end |-> 0, unit |-> "PAUSE"]

\* (mutant of AtEnd) the legacy test under the preset too
MutAtEndExactly(p, a) == a.curr = a.end

AtEnd(p, a) == IF p.state_fix THEN a.curr >= a.end ELSE a.curr = a.end

\* gdrom_get_cdda, while a track plays: the sector at curr is heard.
Sector(p, a) ==
  LET b == [a EXCEPT !.curr = @ + 1]
  IN CASE ~AtEnd(p, b) -> b
       [] AtEnd(p, b) /\ a.repeats > 0 ->
            [b EXCEPT !.curr = a.start,
                      !.repeats = IF @ = Endless THEN @ ELSE @ - 1]
       [] AtEnd(p, b) /\ a.repeats = 0 ->
            [b EXCEPT !.playing = FALSE,
                      !.status = IF p.state_fix THEN "TERMINATED" ELSE @,
                      !.unit = IF p.state_fix THEN "PAUSE" ELSE "STANDBY"]

Playing(p, a) ==
  [a EXCEPT !.playing = TRUE, !.unit = "PLAY",
            !.status = IF p.state_fix THEN "PLAYING" ELSE @]

\* SPI_CD_PLAY with parameter 1 or 2: from start up to end.  An end of 0 is
\* the disc's under the preset and no end at all without it.
PlayRange(p, a, c) ==
  Playing(p, [a EXCEPT !.start = c.start, !.curr = c.start, !.repeats = c.repeats,
                       !.end = IF p.state_fix /\ c.end = 0 THEN LastFAD ELSE c.end])

\* (mutant of Resume) the repeat count is read from the packet as before
MutResumeRepeats(p, a, c) ==
  IF p.state_fix /\ a.status # "PAUSED" THEN a
  ELSE Playing(p, [a EXCEPT !.repeats = c.repeats])

\* SPI_CD_PLAY with parameter 7: only a paused play under the preset.
Resume(p, a, c) ==
  CASE ~p.state_fix -> Playing(p, [a EXCEPT !.repeats = c.repeats])
    [] p.state_fix /\ a.status # "PAUSED" -> a
    [] p.state_fix /\ a.status = "PAUSED" /\ a.curr > a.end ->
         [a EXCEPT !.status = "TERMINATED", !.playing = FALSE, !.unit = "STANDBY"]
    [] p.state_fix /\ a.status = "PAUSED" /\ a.curr <= a.end -> Playing(p, a)

\* What every SPI_CD_SEEK does first.
Paused(p, a) ==
  [a EXCEPT !.playing = FALSE, !.unit = "PAUSE",
            !.status = IF p.state_fix /\ @ = "PLAYING" THEN "PAUSED" ELSE @]

\* Parameters 1 and 2
SeekTo(p, a, c) == [Paused(p, a) EXCEPT !.start = c.start, !.curr = c.start]

\* Parameter 3: stop and go home.
SeekHome(p, a) ==
  [Paused(p, a) EXCEPT !.start = HomeFAD, !.curr = HomeFAD, !.unit = "STANDBY",
                       !.status = IF p.state_fix THEN "NOINFO" ELSE @]

\* Parameter 4: a pause under CDDA_PAUSE_FIX, without it the same as a stop.
SeekPause(p, a) == IF p.pause_fix THEN Paused(p, a) ELSE SeekHome(p, a)

\* (mutant of DataRead) the legacy read: the music goes on
MutReadKeepsAudio(p, a) == a

\* SPI_CD_READ ends the audio under the preset.
DataRead(p, a) ==
  IF p.state_fix
  THEN [a EXCEPT !.playing = FALSE, !.status = "NOINFO",
                 !.unit = IF a.playing THEN "PAUSE" ELSE @]
  ELSE a

\* gd_setdisc, with a disc in the drive
SetDisc(p, a) ==
  [a EXCEPT !.playing = @ /\ ~p.state_fix, !.unit = "PAUSE",
            !.status = IF p.state_fix THEN "NOINFO" ELSE @]

=============================================================================
