\* Concurrent calls of initiate that share a key, a reference or both, and what becomes
\* of the payments.
SPECIFICATION Spec
CONSTANTS
  a1 = a1
  k1 = k1
  k2 = k2
  ref1 = ref1
  NoKey = NoKey
  Nobody = Nobody
  Apps = {a1}
  Keys = {k1, k2}
  References = {ref1}
  Requests <- Calls
  Transitions <- Callbacks
INVARIANTS
  OnePaymentPerReference
  PaymentsPaid
PROPERTIES
  ImplementsIdempotentCreate
  SettledUnlessOverlapped
CHECK_DEADLOCK FALSE
