SPECIFICATION LockSpec
CONSTANTS
  Tasks = {t1, t2}
  Yielder = yielder
  Free = free
  Calls = {"publish_qos0", "publish", "subscribe", "unsubscribe"}
  Reenters = {"PUBLISH_SUCCESS", "SUBCRIBE_SUCCESS", "SUBCRIBE_NACK", "PUBLISH_RECVEIVED", "DISCONNECT", "RECONNECT"}
  CallbackCalls = {"publish_qos0", "publish", "subscribe", "unsubscribe"}
SYMMETRY Symmetry
INVARIANTS NoCircularWait ReturnsUnlocked
