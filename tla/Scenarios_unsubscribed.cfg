SPECIFICATION Spec
CONSTANTS
    c1 = c1
    c2 = c2
    Clients = {c1, c2}
    Origins = {o1, o2}
    Plans <- Unsubscribed
    Faults = {}
    Cycles = 2
    Days = 3
    Qty = 2
INVARIANT SendsUnsubscribed
