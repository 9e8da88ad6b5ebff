SPECIFICATION UnitSpec
CONSTANTS
  Units = {"steering", "wheels", "beat", "display", "gps", "value", "registers"}
  \* Two presses and two toggles in six milliseconds of a clock that wraps after four.
  MObs = {0, 1}
  DEBOUNCE_TIME = 2
  Width = 4
  MaxTime = 5
  MaxPresses = 2
  MaxToggles = 2
  MaxFrames = 2
  RotaryPins = {0}
  Received <- MCReceived
  \* Four holes of each wheel over digits of two values: a carry, and a full counter.
  Base = 2
  MaxTicks = 4
  \* 30, 10 and 100 ms in units of 5 ms; two heartbeats lost in a row.
  Period = 6
  Check = 2
  Timeout = 20
  Slack = 1
  BeatTime = 60
  MaxLost = 2
  \* Numbers of one to four digits, all digits among them; 0.0, 0.5, 11.9 and
  \* 120.4 volts, and 11.99.
  Values = {0, 7, 45, 98, 1236}
  Volts = {0, 105, 2517, 2518, 25284}
  Gears = {0, 3, 9}
  \* A sentence of 17 characters; two of them run together reach the limit.
  Latitudes = {3, 6}
  MAX_SENTENCE_LEN = 20
  MaxSentences = 4
  MaxFaults = 1
  \* Bytes around every change of sign.
  Bytes = {0, 1, 100, 127, 128, 200, 255}
  \* Three calls of any drivers.
  Timers = {1, 2, 3}
  Prescalars = {"1", "64"}
  Modes <- MCModes
  Channels = {2, 5}
  Rpms = {0, 11600, 12001, 13000}
  MaxCalls = 3
INVARIANTS PaddlesRight WheelShowsTrue HolesCounted Reachable FixesTrue EcuValueTrue SettingsHold
PROPERTIES NeutralTold
\* Time, calls and sentences are bounded.
CHECK_DEADLOCK FALSE
