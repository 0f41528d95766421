CONSTANTS
  Senders = {s1, s2}
  MaxSends <- MCMaxSends
  QueueSize <- MCQueueSize
SPECIFICATION Spec
INVARIANT NoSendOnClosedChannel
\* Senders make a bounded number of calls and Cancel is called at most once:
\* after that, or after a panic, the target really has nothing left to do.
CHECK_DEADLOCK FALSE
