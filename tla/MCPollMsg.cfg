\* Lengths from 0 to one too many; a message waits in the thread when the socket is full.
CONSTANTS
  NUMBER_THREADS = 2
  MAXLINE = 3
  SocketRoom = 1
  MaxSent = 2
SPECIFICATION Spec
INVARIANTS
  InOrder

  
\* Without messages everything waits.
CHECK_DEADLOCK FALSE
