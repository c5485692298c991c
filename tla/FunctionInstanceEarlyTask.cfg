SPECIFICATION Spec
CONSTANTS
  h1 = h1
  h2 = h2
  f1 = f1
  t1 = t1
  HttpRequests <- MCHttpRequests
  InvokedRequests <- MCInvokedRequests
  Tasks <- MCTasks
  MaxInstances = 1
  Free = Free
INVARIANT TaskAfterRequest
CHECK_DEADLOCK FALSE
