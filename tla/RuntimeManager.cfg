\* Two processes in turn, the boot and two retries, one automatic restart.
SPECIFICATION FairSpec
CONSTANTS
  Children = {c1, c2}
  Tasks = {boot, t1, t2}
  Boot = boot
  Allowance = 1
  None = None
INVARIANTS RuntimeIsOrderly
PROPERTIES DesktopSettles
\* The application may have quit.
CHECK_DEADLOCK FALSE
