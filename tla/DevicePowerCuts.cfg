\* Six charges, the power cut or the backend failing anywhere but in the boot read.
CONSTANTS
  MaxT = 6
  MaxReadFaults = 0
  Empty = Empty
SPECIFICATION Spec
INVARIANTS IInv NoCounterReuse ReloadMatches CounterCoversReceipt DisplayedIsRetained
PROPERTY ConsumedIsFinal
\* MaxT bounds the counters explored: after the last one the model stops.
CHECK_DEADLOCK FALSE
