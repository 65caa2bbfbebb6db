CONSTANTS
    ode = ode
    odeByAnother = odeByAnother
    air = air
    Songs <- MCSongs
    Titles <- MCTitles
    Title <- MCTitle
    MaxRequests = 3
SPECIFICATION FairSpec
INVARIANTS TypeOK OneAtATime OneTaskPerTitle MarkedIsThere
PROPERTIES QueueDrains
CONSTRAINT OneRow OneLeft
