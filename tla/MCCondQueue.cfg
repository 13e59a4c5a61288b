\* Three workers so that one message wakes more than one, three messages so that
\* the list is two long while the third is on its way.
CONSTANTS
  THREAD_NUM = 3
  TASK_COUNT = 3
SPECIFICATION Spec
INVARIANTS ExactlyOnce TakesFromNonEmpty NoLostWakeup
PROPERTIES ImplementsPool
\* main exits, and the program is over, when no worker could be started.
CHECK_DEADLOCK FALSE
