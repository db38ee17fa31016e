SPECIFICATION Spec
CONSTANTS
    Nodes = {n1, n2, n3}
    Root = n2
    Links = {{n1, n2}, {n2, n3}}
    Consumers = {n1, n3}
    MaxRecords = 2
INVARIANT TypeOK
INVARIANT SharingNeedsDemand
INVARIANT NoEcho
