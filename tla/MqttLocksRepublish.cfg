SPECIFICATION LockSpec
CONSTANTS
  Tasks = {t1}
  Yielder = yielder
  Free = free
  Calls = {"publish_qos0", "publish", "subscribe", "unsubscribe"}
  Reenters = {"PUBLISH_TIMEOUT"}
  CallbackCalls = {"publish"}
INVARIANT NoCircularWait
