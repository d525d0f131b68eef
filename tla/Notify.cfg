SPECIFICATION FairSpec
CONSTANTS
  Senders = {s1, s2}
  Counts = {0, 1, 5, 11}
  MaxSequence = 3
INVARIANT EveryParameterOnce
PROPERTIES SequenceAdvances CallReturns ImplementsContract
