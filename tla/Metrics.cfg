SPECIFICATION MetricsSpec
CONSTANTS
    in = in
    acc = acc
    Source = {in, acc}
    KindOf <- MCKindOf
    Hour = {1, 2}
    MaxBuckets = 3
    NoReply = NoReply
    Torn = Torn
    MaxBytes <- MCMaxBytes
    MaxFailures <- MCMaxFailures
INVARIANTS
    CountedOnceUnlessFailed
    
