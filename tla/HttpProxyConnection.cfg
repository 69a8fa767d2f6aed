CONSTANTS
  Host = {h1, h2}
  NoHost = none
SPECIFICATION Proxy
INVARIANTS ProxyTypeOK RecycledClean NeverLeaked ResolverInStep RequestAwaited
PROPERTIES SilentRecycled
CHECK_DEADLOCK FALSE
