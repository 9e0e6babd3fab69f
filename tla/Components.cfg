SPECIFICATION Spec
CONSTANT None = None
CHECK_DEADLOCK FALSE
 
 
PROPERTY UpdatesOrdered
PROPERTY ServiceSettles
PROPERTY ClientsSettle
