CONSTANTS
    n1 = n1
    n2 = n2
    pid1 = pid1
    Namespaces <- MCNamespaces
    ProcessIds <- MCProcessIds
    MaxStarts = 3
SPECIFICATION Spec
INVARIANT DescribeReturnsLatestExecution
CHECK_DEADLOCK FALSE
