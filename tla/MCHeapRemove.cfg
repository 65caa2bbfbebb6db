CONSTANTS
    Key = {1, 2, 3, 4, 5, 6, 7, 8, 9}
    MaxSize = 7
SPECIFICATION Spec
INVARIANT TopIsGreatest
