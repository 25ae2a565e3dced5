SPECIFICATION FairSpec
CONSTANTS
  a1 = a1
  a2 = a2
  a3 = a3
  Alarms <- ThreeAlarms
  Seconds <- Delays
  MaxTime = 5
  NoAlarm = NoAlarm
INVARIANTS
  NeverOversleeps
PROPERTIES
  ImplementsClock
  AlarmsFire
