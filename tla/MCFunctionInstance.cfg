SPECIFICATION TimerFairSpec
CONSTANTS
  h1 = h1
  h2 = h2
  f1 = f1
  t1 = t1
  HttpRequests <- MCHttpRequests
  InvokedRequests <- MCInvokedRequests
  Tasks <- MCTasks
  MaxInstances = 3
  Free = Free
INVARIANTS TypeOK StoreOwnership TasksStayHome AnsweredTasksStart
PROPERTIES HttpRequestSettles
CHECK_DEADLOCK FALSE
