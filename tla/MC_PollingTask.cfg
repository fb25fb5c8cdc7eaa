\* Three tasks (the one cancelled, the one born canceled, one more), two items
\* so that one can throw while the other runs or waits; the delays are 0, 2, 4,
\* 8, 16 and 32 s, then the maximum of 33 s at the seventh attempt and after.
CONSTANTS
  Tasks = {t1, t2, t3}
  NoTask = NoTask
  WorkItems = {i1, i2}
  MaxDelay = 33
  AttemptsBound = 7
SPECIFICATION FairSpec
INVARIANTS TypeOK AtMostOneLoop NoUnstoppableLoop OnePollAfterCancel
PROPERTIES SleepAccountedFor SleepsAsListed CancelledLoopsEnd KeepsPolling ImplementsWorkLoop
