CONSTANTS
  r1 = r1
  r2 = r2
  k1 = k1
  s1 = s1
  Ids = {r1, r2}
  Keys = {k1}
  NoKey = NoKey
  Sessions = {s1}
  NoSession = NoSession
  NoEnvelope = NoEnvelope
  NoResult = NoResult
  NoId = NoId
  Payloads <- MCPayloads
  Envelopes <- MixedEnvelopes
  Malformed <- MixedMalformed
  MaxQueue = 3
  MaxBytes = 3
  MaxTunnelBytes = 2
  MaxTransport <- MCTransport
  MaxLane <- MCLane
  Retention <- MCRetention
  CooldownTicks = 2
  RetryTicks = {3}
  Interval = 0
  MaxLosses = 1
  MaxTime = 1
SPECIFICATION FairSpec
INVARIANTS Bounded OneHome CachesCoherent AtMostOnce HonestResults
PROPERTIES AnswersStand ImplementsRequestDelivery Answered
