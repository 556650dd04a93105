\* Up to three addresses and 20 failures in a row, with a greeting.
SPECIFICATION Spec
CONSTANTS
  MaxAddrs = 3
  MaxAttempt = 20
  HasHello = TRUE
INVARIANTS AddrsLiveWhileConnecting OneSocketOwner
PROPERTIES EachAddressOnce BackoffGrows
